---- MODULE Spec2Model ----
(***************************************************************************)
(* Verification model of the validation core of Tabular Review:           *)
(*   - services/smtValidation.ts  (Z3 context manager, value parsers,     *)
(*     validateWithSMT)                                                    *)
(*   - the formal-logic module (LogicExpression, evaluateExpression,      *)
(*     getAffectedColumns, validateDocument, DEFAULT_CONTRACT_RULES)      *)
(* Strings the parsers look into are sequences of one-character strings.  *)
(***************************************************************************)
EXTENDS Integers, Sequences, FiniteSets, TLC

VARIABLES
    \* ---- services/smtValidation.ts ----
    z3Instance,         \* module-level `let z3Instance`: 0 is null, n > 0 the n-th context created
    initCount,          \* how many times init()/Context('main') has completed
    constraints,        \* the constraints argument of validateWithSMT
    results,            \* the results argument (ExtractionResult): docId -> colId -> cell
    pc,                 \* per call: where the async function validateWithSMT is suspended
    ctx,                \* per call: `const ctx = await getZ3Context()`
    docIdOf,            \* per call: the docId argument
    idx,                \* per call: index of the constraint of the for-loop being handled
    solver,             \* per call: assertions held by the current `solver`
    extractedValues,    \* per call: `extractedValues` of the current iteration
    validationResults,  \* per call: `validationResults`
    outcomes,           \* per call: what happened to each constraint handled so far
    modelAfterCheck,    \* what solver.model() does after a check that was not 'sat'
    \* ---- formal-logic module ----
    formula,            \* a LogicExpression built with the helper functions
    lgPhase,            \* "build" before the call of validateDocument, "returned" after
    lgDocId,            \* the docId argument of validateDocument
    rules,              \* the rules argument of validateDocument
    lgReturn,           \* how validateDocument ended: the list returned, or the error raised
    lastIndex,          \* the lastIndex property of the RegExp object a matches atom holds
    evalLog,            \* the calls of validateDocument made with one rule object, in order
    \* ---- App.tsx ----
    columns,            \* the state `columns`: the columns of the project, with their rules
    documents,          \* the state `documents`: the ids of the uploaded documents, in order
    resultsState,       \* the state `results`, as the updaters of setResults see it (prev)
    runPhase,           \* where processExtraction is: "idle", "extracting", "smt", "done",
                        \* or "rejected" when an error left it through the finally block
    tasks,              \* the extraction tasks of the run that have not written their cell
    smtIndex,           \* the position of the SMT validation loop in docsToProcess
    \* ---- components/VerificationSidebar.tsx ----
    mounted,            \* is the sidebar mounted
    document,           \* the prop `document` (NoDocument for null)
    viewMode,           \* the state `viewMode`: "text" or "pdf"
    pdfBlobUrl,         \* the state `pdfBlobUrl` ("" for null)
    url,                \* the local `url` of the blob effect whose cleanup is registered
    cleanup,            \* is a cleanup of the blob effect registered, and for which document
    createdUrls,        \* every URL that URL.createObjectURL returned to the sidebar
    revokedUrls,        \* every URL that was passed to URL.revokeObjectURL
    \* ---- App.tsx: runs of processExtraction that overlap ----
    isProcessing,       \* the state `isProcessing`
    abortControllerRef, \* abortControllerRef.current: the run whose controller it holds, 0 for null
    columnStatus,       \* the status of each column of `columns`, in order
    runs,               \* every call of processExtraction: its controller, closure and position
    started,            \* how many runs were started
    \* ---- services/consensusService.ts ----
    consensusPhase,     \* "idle", "running" while the agents are awaited, "returned"
    agentResults,       \* what the promise of each agent resolved with (NoField before)
    consensusCell,      \* the cell runConsensusExtraction returned (NoField before)
    \* ---- services/geminiService.ts: getOrCreateCache ----
    now,                \* Date.now(), in ticks
    cacheStore,         \* docId -> the stored entry [name, expireTime], or NoEntry
    cacheLocks,         \* docId -> the creation whose promise is the lock, or 0
    creations,          \* the creation promises made so far, in order
    cacheCalls,         \* the calls of getOrCreateCache so far and what each returned
    \* ---- services/geminiService.ts, services/claudeService.ts: withRetry ----
    retryPhase,         \* "idle", "operation", "wait", "returned", "thrown"
    provider,           \* whose copy of withRetry runs
    retries,            \* the retries argument
    currentTry,         \* the local counter of failed attempts
    invocations,        \* how many times operation() was called
    lastError,          \* the error the last attempt failed with, or NoError
    retryResult         \* what withRetry returned or threw

smtVars == <<z3Instance, initCount, constraints, results, pc, ctx, docIdOf, idx,
             solver, extractedValues, validationResults, outcomes, modelAfterCheck>>
smtVarsButResults == <<z3Instance, initCount, constraints, pc, ctx, docIdOf, idx,
                       solver, extractedValues, validationResults, outcomes, modelAfterCheck>>
lgVars == <<formula, lgPhase, lgDocId, rules, lgReturn, lastIndex, evalLog>>
runVars == <<documents, resultsState, runPhase, tasks, smtIndex>>
sidebarVars == <<mounted, document, viewMode, pdfBlobUrl, url, cleanup, createdUrls, revokedUrls>>
overlapVars == <<isProcessing, abortControllerRef, columnStatus, runs, started>>
consensusVars == <<consensusPhase, agentResults, consensusCell>>
cacheVars == <<now, cacheStore, cacheLocks, creations, cacheCalls>>
retryVars == <<retryPhase, provider, retries, currentTry, invocations, lastError, retryResult>>
svcVars == <<sidebarVars, overlapVars, consensusVars, cacheVars, retryVars>>
outsideSidebar == <<smtVars, lgVars, columns, runVars, overlapVars, consensusVars, cacheVars, retryVars>>
outsideConsensus == <<smtVars, lgVars, columns, runVars, sidebarVars, overlapVars, cacheVars, retryVars>>
outsideCache == <<smtVars, lgVars, columns, runVars, sidebarVars, overlapVars, consensusVars, retryVars>>
outsideRetry == <<smtVars, lgVars, columns, runVars, sidebarVars, overlapVars, consensusVars, cacheVars>>
appVars == <<columns, runVars, svcVars>>
vars == <<smtVars, lgVars, appVars>>

(***************************************************************************)
(* Characters and strings                                                  *)
(***************************************************************************)
Digits == <<"0", "1", "2", "3", "4", "5", "6", "7", "8", "9">>
Upper == <<"A", "B", "C", "D", "E", "F", "G", "H", "I", "J", "K", "L", "M",
           "N", "O", "P", "Q", "R", "S", "T", "U", "V", "W", "X", "Y", "Z">>
Lower == <<"a", "b", "c", "d", "e", "f", "g", "h", "i", "j", "k", "l", "m",
           "n", "o", "p", "q", "r", "s", "t", "u", "v", "w", "x", "y", "z">>

IsDigit(c) ==
    \E d \in 1..10 : Digits[d] = c

DigitVal(c) ==
    (CHOOSE d \in 1..10 : Digits[d] = c) - 1

IsSpace(c) ==
    c \in {" ", "\t", "\n"}

\* String.prototype.toLowerCase on one character
LowerChar(c) ==
    IF \E i \in 1..26 : Upper[i] = c
    THEN Lower[CHOOSE i \in 1..26 : Upper[i] = c]
    ELSE c

toLowerCase(s) ==
    [i \in 1..Len(s) |-> LowerChar(s[i])]

\* String.prototype.trim
trim(s) ==
    IF \A i \in 1..Len(s) : IsSpace(s[i])
    THEN <<>>
    ELSE LET first == CHOOSE i \in 1..Len(s) :
                          /\ ~IsSpace(s[i])
                          /\ \A j \in 1..(i - 1) : IsSpace(s[j])
             last == CHOOSE i \in 1..Len(s) :
                          /\ ~IsSpace(s[i])
                          /\ \A j \in (i + 1)..Len(s) : IsSpace(s[j])
         IN SubSeq(s, first, last)

\* parseInt(digits, 10) on a run of decimal digits
RECURSIVE DecimalValue(_)
DecimalValue(ds) ==
    IF ds = <<>> THEN 0
    ELSE 10 * DecimalValue(SubSeq(ds, 1, Len(ds) - 1)) + DigitVal(ds[Len(ds)])

(***************************************************************************)
(* JavaScript numbers as far as the parsers produce them: NaN, or a        *)
(* decimal fraction num/den in lowest terms with den > 0.                  *)
(***************************************************************************)
NaN == [nan |-> TRUE, num |-> 0, den |-> 1]

Abs(n) ==
    IF n < 0 THEN -n ELSE n

RECURSIVE GCD(_, _)
GCD(a, b) ==
    IF b = 0 THEN a ELSE GCD(b, a % b)

Rat(n, d) ==
    LET g == GCD(Abs(n), d)
    IN [nan |-> FALSE, num |-> n \div g, den |-> d \div g]

RMul(x, y) ==
    IF x.nan \/ y.nan THEN NaN ELSE Rat(x.num * y.num, x.den * y.den)

RAdd(x, y) ==
    IF x.nan \/ y.nan THEN NaN ELSE Rat(x.num * y.den + y.num * x.den, x.den * y.den)

RSub(x, y) ==
    IF x.nan \/ y.nan THEN NaN ELSE Rat(x.num * y.den - y.num * x.den, x.den * y.den)

\* x <= y; every comparison with NaN is false
RLe(x, y) ==
    /\ ~x.nan
    /\ ~y.nan
    /\ x.num * y.den <= y.num * x.den

RECURSIVE Pow10(_)
Pow10(n) ==
    IF n = 0 THEN 1 ELSE 10 * Pow10(n - 1)

\* How many digits follow each other in s from position `from` on
DigitRun(s, from) ==
    CHOOSE n \in 0..(Len(s) + 1 - from) :
        /\ \A j \in from..(from + n - 1) : IsDigit(s[j])
        /\ (from + n > Len(s) \/ ~IsDigit(s[from + n]))

\* parseFloat(string): leading white space is skipped, then the longest prefix
\* [sign] digits [. digits] is read; NaN when that prefix has no digit.  (Exponents
\* and 'Infinity' are read by parseFloat too; no string of this model has them.)
LeadingSpaces(string) ==
    CHOOSE n \in 0..Len(string) :
        /\ \A j \in 1..n : IsSpace(string[j])
        /\ (n = Len(string) \/ ~IsSpace(string[n + 1]))

\* The number written by intLen digits from position start and fracLen digits
\* after the point that follows them
DecimalOf(string, start, negative, intLen, fracLen) ==
    IF intLen = 0 /\ fracLen = 0
    THEN NaN
    ELSE Rat((IF negative THEN -1 ELSE 1)
                 * (DecimalValue(SubSeq(string, start, start + intLen - 1)) * Pow10(fracLen)
                    + DecimalValue(SubSeq(string, start + intLen + 1, start + intLen + fracLen))),
             Pow10(fracLen))

FractionFrom(string, start, negative, intLen) ==
    DecimalOf(string, start, negative, intLen,
              IF start + intLen <= Len(string) /\ string[start + intLen] = "."
              THEN DigitRun(string, start + intLen + 1) ELSE 0)

DecimalFrom(string, start, negative) ==
    FractionFrom(string, start, negative, DigitRun(string, start))

SignedFrom(string, lead) ==
    IF lead < Len(string) /\ string[lead + 1] \in {"+", "-"}
    THEN DecimalFrom(string, lead + 2, string[lead + 1] = "-")
    ELSE DecimalFrom(string, lead + 1, FALSE)

parseFloat(string) ==
    SignedFrom(string, LeadingSpaces(string))

\* string.replace(/[chars]/g, '')
RemoveAll(s, chars) ==
    SelectSeq(s, LAMBDA c : c \notin chars)

\* string.replace(ch, ''): the first occurrence only
RemoveFirst(s, ch) ==
    IF \A i \in 1..Len(s) : s[i] # ch
    THEN s
    ELSE LET first == CHOOSE i \in 1..Len(s) : s[i] = ch /\ \A j \in 1..(i - 1) : s[j] # ch
         IN SubSeq(s, 1, first - 1) \o SubSeq(s, first + 1, Len(s))

\* string.includes(ch), for any of the characters
Includes(s, chars) ==
    \E i \in 1..Len(s) : s[i] \in chars

(***************************************************************************)
(* VALUE PARSERS (smtValidation.ts)                                        *)
(***************************************************************************)
parseToBoolean(value) ==
    LET normalized == trim(toLowerCase(value))
    IN \/ normalized = <<"y", "e", "s">>
       \/ normalized = <<"t", "r", "u", "e">>
       \/ normalized = <<"1">>

\* value.match(/(\d+)/): the first maximal run of digits
parseToInt(value) ==
    IF \A i \in 1..Len(value) : ~IsDigit(value[i])
    THEN 0
    ELSE LET first == CHOOSE i \in 1..Len(value) :
                          /\ IsDigit(value[i])
                          /\ \A j \in 1..(i - 1) : ~IsDigit(value[j])
             last == CHOOSE i \in first..Len(value) :
                          /\ \A j \in first..i : IsDigit(value[j])
                          /\ (i = Len(value) \/ ~IsDigit(value[i + 1]))
         IN DecimalValue(SubSeq(value, first, last))

\* `x || 0` for a number x
OrZero(x) ==
    IF x.nan THEN Rat(0, 1) ELSE x

\* parseToReal after its first statement
RealOfClean(cleanValue) ==
    IF Includes(cleanValue, {"M", "m"})
    THEN RMul(parseFloat(RemoveAll(cleanValue, {"M", "m"})), Rat(1000000, 1))
    ELSE IF Includes(cleanValue, {"K", "k"})
    THEN RMul(parseFloat(RemoveAll(cleanValue, {"K", "k"})), Rat(1000, 1))
    ELSE IF Includes(cleanValue, {"%"})
    THEN RMul(parseFloat(RemoveFirst(cleanValue, "%")), Rat(1, 100))
    ELSE OrZero(parseFloat(cleanValue))

parseToReal(value) ==
    RealOfClean(RemoveAll(value, {"$", ","}))

(***************************************************************************)
(* Extraction results (types: ExtractionResult, ExtractionCell)            *)
(* results[docId] is a function from the column ids that have an entry to  *)
(* a cell; a cell is null, or an object whose value is a string or absent. *)
(***************************************************************************)
NullCell == [kind |-> "null"]
NoValueCell == [kind |-> "novalue"]
Cell(s) == [kind |-> "value", value |-> s]

Str24Months == <<"2", "4", " ", "m", "o", "n", "t", "h", "s">>
Str90 == <<"9", "0">>
Str10 == <<"1", "0">>
Str1000Dollars == <<"$", "1", ",", "0", "0", "0">>
Str30Days == <<"3", "0", " ", "d", "a", "y", "s">>
StrYes == <<"Y", "e", "s">>
StrNo == <<"N", "o">>
StrEmpty == <<>>

\* `cell?.value || ''` of validateWithSMT
CellValueOrEmpty(docResults, colId) ==
    IF colId \in DOMAIN docResults /\ docResults[colId].kind = "value"
    THEN docResults[colId].value
    ELSE StrEmpty

(***************************************************************************)
(* The solver (z3-solver high-level API) as far as validateWithSMT uses it *)
(* A Z3 constant is a name with a sort; an assertion is an operator over   *)
(* constants x, y and a literal k; a solver is the set of its assertions.  *)
(***************************************************************************)
NoVar == [name |-> "", sort |-> "none"]
Z3Const(name, sort) == [name |-> name, sort |-> sort]
Assertion(op, x, y, k) == [op |-> op, x |-> x, y |-> y, k |-> k]

\* An assertion over four constants: total (x), upfront (y), recurring (r), term (t)
PaymentAssertion(op, x, y, r, t) == [op |-> op, x |-> x, y |-> y, k |-> 0, r |-> r, t |-> t]

\* A comparison of the Real constant x with the literal lit
RealAssertion(op, x, lit) == [op |-> op, x |-> x, y |-> NoVar, k |-> 0, lit |-> lit]

RealOps == {"rgt", "rlt", "req", "rneq", "rge", "rle"}

VarsOf(asserts) ==
    ({a.x : a \in asserts} \cup {a.y : a \in asserts}
        \cup UNION {{a.r, a.t} : a \in {b \in asserts : "r" \in DOMAIN b}}) \ {NoVar}

\* upfront.add(recurring.mul(ctx.ToReal(termLength))) under an assignment
PaymentCalculated(a, m) ==
    RAdd(m[a.y], RMul(m[a.r], Rat(m[a.t], 1)))

\* total.mul(0.01) under an assignment
PaymentTolerance(a, m) ==
    RMul(m[a.x], Rat(1, 100))

\* Booleans are 0/1 in an assignment
AssertionHolds(a, m) ==
    CASE a.op = "ge" -> m[a.x] >= a.k
      [] a.op = "le" -> m[a.x] <= a.k
      [] a.op = "gt" -> m[a.x] > a.k
      [] a.op = "eq" -> m[a.x] = a.k
      [] a.op = "implies_gt" -> (m[a.x] = 1) => (m[a.y] > a.k)
      [] a.op = "istrue" -> m[a.x] = 1
      [] a.op = "not" -> m[a.x] = 0
      [] a.op = "rgt" -> ~RLe(m[a.x], a.lit)
      [] a.op = "rlt" -> ~RLe(a.lit, m[a.x])
      [] a.op = "req" -> m[a.x] = a.lit
      [] a.op = "rneq" -> m[a.x] # a.lit
      [] a.op = "rge" -> RLe(a.lit, m[a.x])
      [] a.op = "rle" -> RLe(m[a.x], a.lit)
      [] a.op = "total_ge" -> RLe(RSub(PaymentCalculated(a, m), PaymentTolerance(a, m)), m[a.x])
      [] a.op = "total_le" -> RLe(m[a.x], RAdd(PaymentCalculated(a, m), PaymentTolerance(a, m)))

\* Integer values worth trying: every literal and its neighbours
Candidates(asserts) ==
    {0, 1} \cup UNION {{a.k - 1, a.k, a.k + 1} : a \in asserts}

\* Real values worth trying: every literal (every Real constant of a solver that is
\* checked is tied to its extracted value by an equation)
RealCandidates(asserts) ==
    {Rat(0, 1)} \cup {a.lit : a \in {b \in asserts : b.op \in RealOps}}

\* solver.check(): is there an assignment of the constants satisfying every assertion
Satisfiable(asserts) ==
    LET reals == {v \in VarsOf(asserts) : v.sort = "real"}
        others == VarsOf(asserts) \ reals
    IN \E mi \in [others -> Candidates(asserts)], mr \in [reals -> RealCandidates(asserts)] :
        LET m == [v \in VarsOf(asserts) |-> IF v \in reals THEN mr[v] ELSE mi[v]]
        IN /\ \A v \in others : v.sort = "bool" => m[v] \in {0, 1}
           /\ \A a \in asserts : AssertionHolds(a, m)

(***************************************************************************)
(* SMT constraints.  variableMap is the sequence of Object.entries; the    *)
(* constraint function is the list of assertions it returns, over column   *)
(* ids that it reads from `vars`.                                          *)
(***************************************************************************)
smt_term_length_bounds ==
    [id |-> "smt_term_length_bounds",
     description |-> "Contract term must be between 1 and 60 months",
     severity |-> "error",
     variableMap |-> << <<"col_term_length", "int">> >>,
     affectedColumns |-> <<"col_term_length">>,
     constraint |-> << Assertion("ge", "col_term_length", "", 1),
                       Assertion("le", "col_term_length", "", 60) >>]

smt_notice_period_range ==
    [id |-> "smt_notice_period_range",
     description |-> "Notice period must be between 30 and 180 days",
     severity |-> "warning",
     variableMap |-> << <<"col_notice_period", "int">> >>,
     affectedColumns |-> <<"col_notice_period">>,
     constraint |-> << Assertion("ge", "col_notice_period", "", 30),
                       Assertion("le", "col_notice_period", "", 180) >>]

smt_auto_renewal_requires_term ==
    [id |-> "smt_auto_renewal_requires_term",
     description |-> "If auto-renewal exists, term length must be positive",
     severity |-> "error",
     variableMap |-> << <<"col_proc_auto_renewal", "bool">>, <<"col_term_length", "int">> >>,
     affectedColumns |-> <<"col_proc_auto_renewal", "col_term_length">>,
     constraint |-> << Assertion("implies_gt", "col_proc_auto_renewal", "col_term_length", 0) >>]

\* A caller-built constraint over a text column (variable kind 'string')
custom_term_text_present ==
    [id |-> "custom_term_text_present",
     description |-> "Term length text must be present",
     severity |-> "info",
     variableMap |-> << <<"col_term_length", "string">> >>,
     affectedColumns |-> <<"col_term_length">>,
     constraint |-> << Assertion("istrue", "col_term_length", "", 0) >>]

\* A caller-built constraint whose function reads a column that its variableMap
\* does not declare: vars[colId] is undefined and the method call raises
custom_malformed ==
    [id |-> "custom_malformed",
     description |-> "Notice period must be positive",
     severity |-> "error",
     variableMap |-> << <<"col_term_length", "int">> >>,
     affectedColumns |-> <<"col_term_length">>,
     constraint |-> << Assertion("gt", "col_notice_period", "", 0) >>]

\* Constraint 5: Multi-Column Arithmetic
smt_payment_terms_arithmetic ==
    [id |-> "smt_payment_terms_arithmetic",
     description |-> "Total payment equals upfront + recurring * term length",
     severity |-> "warning",
     variableMap |-> << <<"col_upfront_payment", "real">>, <<"col_recurring_payment", "real">>,
                        <<"col_term_length", "int">>, <<"col_total_payment", "real">> >>,
     affectedColumns |-> <<"col_upfront_payment", "col_recurring_payment",
                           "col_term_length", "col_total_payment">>,
     constraint |-> << PaymentAssertion("total_ge", "col_total_payment", "col_upfront_payment",
                                        "col_recurring_payment", "col_term_length"),
                       PaymentAssertion("total_le", "col_total_payment", "col_upfront_payment",
                                        "col_recurring_payment", "col_term_length") >>]

ConstraintCatalog ==
    {smt_term_length_bounds, smt_notice_period_range, smt_auto_renewal_requires_term,
     custom_term_text_present, custom_malformed}

(***************************************************************************)
(* DYNAMIC CONSTRAINT GENERATION (smtValidation.ts)                        *)
(* A column is its id, name, type and smtRules (<<>> when it has none); a  *)
(* rule is its id, operator, value (a string) and description ("" when it  *)
(* has none).                                                              *)
(***************************************************************************)
Column(id, name, type, smtRules) ==
    [id |-> id, name |-> name, type |-> type, smtRules |-> smtRules]

SmtRule(id, operator, value, description) ==
    [id |-> id, operator |-> operator, value |-> value, description |-> description]

\* variable.<operator>(value), as the constraint function of a rule writes it
RealComparison(op, colId, lit) == [op |-> op, x |-> colId, y |-> "", k |-> 0, lit |-> lit]

\* The object pushed for one rule of a column
DynamicConstraint(col, rule) ==
    [id |-> "dynamic_" \o col.id \o "_" \o rule.id,
     description |-> IF rule.description # "" THEN rule.description ELSE col.name \o " check",
     severity |-> "error",
     variableMap |-> << <<col.id, "real">> >>,
     affectedColumns |-> <<col.id>>,
     constraint |-> IF rule.operator \in {"gt", "lt", "eq", "neq", "ge", "le"}
                    THEN << RealComparison("r" \o rule.operator, col.id, parseFloat(rule.value)) >>
                    ELSE << >>]

\* The inner loop: the constraints of the rules of one column, from rule j on
RECURSIVE ConvertRules(_, _)
ConvertRules(col, j) ==
    IF j > Len(col.smtRules)
    THEN << >>
    ELSE <<DynamicConstraint(col, col.smtRules[j])>> \o ConvertRules(col, j + 1)

\* The outer loop, from column i on
RECURSIVE ConvertColumns(_, _)
ConvertColumns(cols, i) ==
    IF i > Len(cols)
    THEN << >>
    ELSE IF Len(cols[i].smtRules) = 0 \/ cols[i].type # "number"
    THEN ConvertColumns(cols, i + 1)
    ELSE ConvertRules(cols[i], 1) \o ConvertColumns(cols, i + 1)

convertColumnRulesToConstraints(cols) ==
    ConvertColumns(cols, 1)

(***************************************************************************)
(* Z3 CONTEXT MANAGER (smtValidation.ts)                                   *)
(***************************************************************************)
Calls == {"a", "b"}

\* getZ3Context up to its first suspension: with z3Instance set the function returns
\* it at once; otherwise it suspends in `await init()`
getZ3Context_Start(p) ==
    IF z3Instance # 0
    THEN /\ ctx' = [ctx EXCEPT ![p] = z3Instance]
         /\ pc' = [pc EXCEPT ![p] = "awaitCtx"]
    ELSE /\ ctx' = ctx
         /\ pc' = [pc EXCEPT ![p] = "awaitInit"]

(***************************************************************************)
(* SMT VALIDATION ENGINE (smtValidation.ts, validateWithSMT)               *)
(***************************************************************************)
NoField == [present |-> FALSE]
EmptyMap == [c \in {} |-> 0]

\* Mutant of NewSolver: the solver of the previous iteration is used again
NewSolverReused(previous) ==
    previous

\* `new Solver()`: a solver with no assertions, whatever solver came before
NewSolver(previous) ==
    {}

\* The first switch: the Z3 constant declared for a column
DeclareVar(colId, varType) ==
    CASE varType = "bool" -> Z3Const(colId, "bool")
      [] varType = "int" -> Z3Const(colId, "int")
      [] varType = "real" -> Z3Const(colId, "real")
      [] varType = "string" -> Z3Const(colId \o "_exists", "bool")

\* The first switch: the typed value read from the cell (booleans are 1/0)
ExtractValue(value, varType) ==
    CASE varType = "bool" -> [kind |-> "bool", num |-> IF parseToBoolean(value) THEN 1 ELSE 0]
      [] varType = "int" -> [kind |-> "int", num |-> parseToInt(value)]
      [] varType = "real" -> [kind |-> "real", num |-> parseToReal(value)]
      [] varType = "string" -> [kind |-> "bool", num |-> IF value # StrEmpty THEN 1 ELSE 0]

\* The second switch: the assertion that ties a constant to its extracted value
ValueAssertion(z3Var, varType, extracted) ==
    CASE varType = "int" -> Assertion("eq", z3Var, NoVar, extracted.num)
      [] varType = "real" -> RealAssertion("req", z3Var, extracted.num)
      [] OTHER -> Assertion(IF extracted.num = 1 THEN "istrue" ELSE "not", z3Var, NoVar, 0)

\* ctx.Real.val(extractedValue) raises for NaN: Z3 rejects the numeral 'NaN'
ValueAssertionRaises(c, extracted) ==
    \E colId \in DOMAIN extracted :
        extracted[colId].kind = "real" /\ extracted[colId].num.nan

VarCols(c) ==
    {c.variableMap[i][1] : i \in DOMAIN c.variableMap}

VarTypeOf(c, colId) ==
    LET i == CHOOSE j \in DOMAIN c.variableMap : c.variableMap[j][1] = colId
    IN c.variableMap[i][2]

\* constraint.constraint(ctx, z3Vars): raises when it reads a column that has no variable
\* (a comparison with the literal NaN raises as well: Z3 rejects the numeral)
ConstraintRaises(c, z3Vars) ==
    \E i \in DOMAIN c.constraint :
        \/ c.constraint[i].x \notin DOMAIN z3Vars
        \/ (c.constraint[i].y # "" /\ c.constraint[i].y \notin DOMAIN z3Vars)
        \/ ("r" \in DOMAIN c.constraint[i] /\ c.constraint[i].r \notin DOMAIN z3Vars)
        \/ ("r" \in DOMAIN c.constraint[i] /\ c.constraint[i].t \notin DOMAIN z3Vars)
        \/ (c.constraint[i].op \in RealOps /\ c.constraint[i].lit.nan)

\* One assertion of the list the constraint function returns, over the Z3 constants
BindAssertion(d, z3Vars) ==
    IF "r" \in DOMAIN d
    THEN PaymentAssertion(d.op, z3Vars[d.x], z3Vars[d.y], z3Vars[d.r], z3Vars[d.t])
    ELSE IF "lit" \in DOMAIN d
    THEN RealAssertion(d.op, z3Vars[d.x], d.lit)
    ELSE Assertion(d.op, z3Vars[d.x], IF d.y = "" THEN NoVar ELSE z3Vars[d.y], d.k)

ConstraintAssertions(c, z3Vars) ==
    {BindAssertion(c.constraint[i], z3Vars) : i \in DOMAIN c.constraint}

\* The body of the try block up to `await solver.check()`
PrepareCheck(c, docResults, previousSolver) ==
    LET fresh == NewSolver(previousSolver)
        z3Vars == [colId \in VarCols(c) |-> DeclareVar(colId, VarTypeOf(c, colId))]
        extracted == [colId \in VarCols(c) |->
                         ExtractValue(CellValueOrEmpty(docResults, colId), VarTypeOf(c, colId))]
    IN IF ConstraintRaises(c, z3Vars)
       THEN [threw |-> TRUE, error |-> "TypeError", solver |-> fresh, extracted |-> extracted]
       ELSE IF ValueAssertionRaises(c, extracted)
       THEN [threw |-> TRUE, error |-> "Z3Error", solver |-> fresh, extracted |-> extracted]
       ELSE [threw |-> FALSE, error |-> "",
             solver |-> fresh \cup ConstraintAssertions(c, z3Vars)
                              \cup {ValueAssertion(z3Vars[colId], VarTypeOf(c, colId), extracted[colId]) :
                                        colId \in VarCols(c)},
             extracted |-> extracted]

generateExplanation(c, values) ==
    [present |-> TRUE, kind |-> "values", values |-> values, description |-> c.description]

\* The result pushed when checkResult === 'sat'
SatResult(c) ==
    [constraintId |-> c.id, satisfied |-> TRUE, severity |-> c.severity,
     message |-> [mark |-> "pass", description |-> c.description],
     affectedColumns |-> c.affectedColumns,
     counterExample |-> NoField, explanation |-> NoField]

\* The result pushed in the else branch (checkResult is 'unsat' or 'unknown')
NotSatResult(c, values, counterExample) ==
    [constraintId |-> c.id, satisfied |-> FALSE, severity |-> c.severity,
     message |-> [mark |-> "violated", description |-> c.description],
     affectedColumns |-> c.affectedColumns,
     counterExample |-> [present |-> TRUE, map |-> counterExample],
     explanation |-> generateExplanation(c, values)]

\* Mutant of ErrorResult: the catch block keeps the constraint's own severity
ErrorResultOwnSeverity(c, error) ==
    [constraintId |-> c.id, satisfied |-> FALSE, severity |-> c.severity,
     message |-> [mark |-> "could_not_validate", description |-> c.description],
     affectedColumns |-> c.affectedColumns,
     counterExample |-> [present |-> FALSE],
     explanation |-> [present |-> TRUE, kind |-> "error", error |-> error]]

\* The result pushed by the catch block
ErrorResult(c, error) ==
    [constraintId |-> c.id, satisfied |-> FALSE, severity |-> "warning",
     message |-> [mark |-> "could_not_validate", description |-> c.description],
     affectedColumns |-> c.affectedColumns,
     counterExample |-> NoField,
     explanation |-> [present |-> TRUE, kind |-> "error", error |-> error]]

Outcome(check, model, error) ==
    [check |-> check, model |-> model, error |-> error]

\* Mutant of RunLoop: the catch block pushes no result for a constraint that raised
RECURSIVE RunLoopSilentCatch(_, _, _, _, _, _)
RunLoopSilentCatch(i, cs, docResults, res, outs, previousSolver) ==
    IF i > Len(cs)
    THEN [pc |-> "done", idx |-> i, solver |-> previousSolver, extracted |-> EmptyMap,
          results |-> res, outcomes |-> outs]
    ELSE LET it == PrepareCheck(cs[i], docResults, previousSolver)
         IN IF it.threw
            THEN RunLoopSilentCatch(i + 1, cs, docResults, res,
                                    Append(outs, Outcome("not_reached", "none", it.error)),
                                    it.solver)
            ELSE [pc |-> "awaitCheck", idx |-> i, solver |-> it.solver,
                  extracted |-> it.extracted, results |-> res, outcomes |-> outs]

\* The for-loop from constraint i on, run until it suspends in `await solver.check()`
\* or ends: an iteration that raises before the check is finished by the catch block
RECURSIVE RunLoop(_, _, _, _, _, _)
RunLoop(i, cs, docResults, res, outs, previousSolver) ==
    IF i > Len(cs)
    THEN [pc |-> "done", idx |-> i, solver |-> previousSolver, extracted |-> EmptyMap,
          results |-> res, outcomes |-> outs]
    ELSE LET it == PrepareCheck(cs[i], docResults, previousSolver)
         IN IF it.threw
            THEN RunLoop(i + 1, cs, docResults,
                         Append(res, ErrorResult(cs[i], it.error)),
                         Append(outs, Outcome("not_reached", "none", it.error)),
                         it.solver)
            ELSE [pc |-> "awaitCheck", idx |-> i, solver |-> it.solver,
                  extracted |-> it.extracted, results |-> res, outcomes |-> outs]

Resume(p, st) ==
    /\ pc' = [pc EXCEPT ![p] = st.pc]
    /\ idx' = [idx EXCEPT ![p] = st.idx]
    /\ solver' = [solver EXCEPT ![p] = st.solver]
    /\ extractedValues' = [extractedValues EXCEPT ![p] = st.extracted]
    /\ validationResults' = [validationResults EXCEPT ![p] = st.results]
    /\ outcomes' = [outcomes EXCEPT ![p] = st.outcomes]

\* A caller invokes validateWithSMT(docId, results, constraints)
Call(p) ==
    /\ pc[p] = "idle"
    /\ \E d \in {"doc1", "doc_unknown"} : docIdOf' = [docIdOf EXCEPT ![p] = d]
    /\ getZ3Context_Start(p)
    /\ UNCHANGED <<z3Instance, initCount, constraints, results, idx, solver,
                   extractedValues, validationResults, outcomes, modelAfterCheck, lgVars, appVars>>

\* `await init()` settles: getZ3Context creates the context, stores and returns it
InitResolve(p) ==
    /\ pc[p] = "awaitInit"
    /\ initCount' = initCount + 1
    /\ z3Instance' = initCount + 1
    /\ ctx' = [ctx EXCEPT ![p] = initCount + 1]
    /\ pc' = [pc EXCEPT ![p] = "awaitCtx"]
    /\ UNCHANGED <<constraints, results, docIdOf, idx, solver, extractedValues,
                   validationResults, outcomes, modelAfterCheck, lgVars, appVars>>

\* validateWithSMT continues after `await getZ3Context()`
Enter(p) ==
    /\ pc[p] = "awaitCtx"
    /\ IF docIdOf[p] \notin DOMAIN results
       THEN /\ pc' = [pc EXCEPT ![p] = "done"]
            /\ UNCHANGED <<idx, solver, extractedValues, validationResults, outcomes>>
       ELSE Resume(p, RunLoop(1, constraints, results[docIdOf[p]], <<>>, <<>>, solver[p]))
    /\ UNCHANGED <<z3Instance, initCount, constraints, results, ctx, docIdOf,
                   modelAfterCheck, lgVars, appVars>>

\* What solver.check() can settle with for a solver holding `asserts`
CheckAnswers(asserts) ==
    {IF Satisfiable(asserts) THEN "sat" ELSE "unsat", "unknown", "rejected"}

\* What solver.model() can do after a check that was not 'sat': hand out a model,
\* return nothing, or raise (the Z3 API raises when no model is available)
ModelAnswers ==
    {"model", "none", "raises"}

\* The counterExample filled from a model
ModelMap(c) ==
    [colId \in VarCols(c) |-> "model_value"]

\* The rest of the try block after `await solver.check()` settled with checkResult
\* (or the catch block, when the check or solver.model() raised)
HandleCheck(c, checkResult, values, model) ==
    CASE checkResult = "rejected" ->
             [result |-> ErrorResult(c, "check_failed"),
              outcome |-> Outcome("rejected", "none", "check_failed")]
      [] checkResult = "sat" ->
             [result |-> SatResult(c), outcome |-> Outcome("sat", "none", "")]
      [] checkResult = "unknown" ->
             [result |-> NotSatResult(c, values, EmptyMap),
              outcome |-> Outcome("unknown", "none", "")]
      [] checkResult = "unsat" /\ model = "raises" ->
             [result |-> ErrorResult(c, "no_model"),
              outcome |-> Outcome("unsat", "raises", "no_model")]
      [] checkResult = "unsat" /\ model = "none" ->
             [result |-> NotSatResult(c, values, EmptyMap),
              outcome |-> Outcome("unsat", "none", "")]
      [] checkResult = "unsat" /\ model = "model" ->
             [result |-> NotSatResult(c, values, ModelMap(c)),
              outcome |-> Outcome("unsat", "model", "")]

\* `await solver.check()` settles; the rest of the iteration runs, then the loop goes on
CheckResolve(p) ==
    /\ pc[p] = "awaitCheck"
    /\ \E checkResult \in CheckAnswers(solver[p]) :
        LET handled == HandleCheck(constraints[idx[p]], checkResult,
                                   extractedValues[p], modelAfterCheck)
        IN Resume(p, RunLoop(idx[p] + 1, constraints, results[docIdOf[p]],
                             Append(validationResults[p], handled.result),
                             Append(outcomes[p], handled.outcome),
                             solver[p]))
    /\ UNCHANGED <<z3Instance, initCount, constraints, results, ctx, docIdOf,
                   modelAfterCheck, lgVars, appVars>>

(***************************************************************************)
(* FORMAL LOGIC TYPES and HELPER FUNCTIONS FOR BUILDING FORMULAS           *)
(* A predicate is named by the helper that builds it; "raising" is a       *)
(* caller-written predicate that throws.                                   *)
(***************************************************************************)
atom(colId, predicate) == [type |-> "atom", colId |-> colId, predicate |-> predicate]
isYes(colId) == atom(colId, "isYes")
isNo(colId) == atom(colId, "isNo")
exists(colId) == atom(colId, "exists")
isEmpty(colId) == atom(colId, "isEmpty")
raising(colId) == atom(colId, "raising")
matches(colId, regex) == [type |-> "atom", colId |-> colId, predicate |-> "matches", regex |-> regex]
inRange(colId, min, max) == [type |-> "atom", colId |-> colId, predicate |-> "inRange", min |-> min, max |-> max]
and(left, right) == [type |-> "and", left |-> left, right |-> right]
or(left, right) == [type |-> "or", left |-> left, right |-> right]
implies(premise, conclusion) == [type |-> "implies", premise |-> premise, conclusion |-> conclusion]
not(operand) == [type |-> "not", operand |-> operand]
iff(left, right) == [type |-> "iff", left |-> left, right |-> right]

\* JavaScript values a lookup can give
Undefined == [js |-> "undefined"]
Null == [js |-> "null"]
JsString(s) == [js |-> "string", s |-> s]

\* expr.name: undefined when the object has no such property
Property(expr, name) ==
    IF name \in DOMAIN expr THEN expr[name] ELSE Undefined

\* The predicate functions of isYes, isNo, exists, isEmpty applied to v
PredicateValue(predicate, v) ==
    CASE predicate = "isYes" -> v = JsString(StrYes)
      [] predicate = "isNo" -> v = JsString(StrNo)
      [] predicate = "exists" -> v # JsString(StrEmpty) /\ v # Null /\ v # Undefined
      [] predicate = "isEmpty" -> v = JsString(StrEmpty) \/ v = Null \/ v = Undefined
      [] OTHER -> FALSE

\* The regular expression /\d+/ with the flags given; the RegExp object of a formula
\* keeps its lastIndex in the variable lastIndex
RegExp(flags) ==
    [source |-> "\\d+", global |-> "g" \in flags, sticky |-> "y" \in flags]

\* regex.test(s) for /\d+/ with lastIndex li: the result and the lastIndex it leaves.
\* With the g or y flag the search starts at lastIndex (y: matches only there), a
\* match sets lastIndex to its end and a failure sets it to 0; without them
\* lastIndex is neither read nor written.
RegExpTest(regex, li, s) ==
    LET stateful == regex.global \/ regex.sticky
        start == IF stateful THEN li ELSE 0
        digitsAt == {i \in (start + 1)..Len(s) : IsDigit(s[i])}
        found == IF regex.sticky
                 THEN start < Len(s) /\ IsDigit(s[start + 1])
                 ELSE digitsAt # {}
        first == IF regex.sticky THEN start + 1
                 ELSE CHOOSE i \in digitsAt : \A j \in digitsAt : i <= j
    IN IF found
       THEN [result |-> TRUE,
             lastIndex |-> IF stateful THEN first - 1 + DigitRun(s, first) ELSE li]
       ELSE [result |-> FALSE, lastIndex |-> IF stateful THEN 0 ELSE li]

\* The predicate function of inRange applied to the string v
InRangeValue(expr, v) ==
    LET num == parseFloat(v)
    IN ~num.nan /\ RLe(Rat(expr.min, 1), num) /\ RLe(num, Rat(expr.max, 1))

\* expr.predicate(value): the value returned or the error raised, and the call made
\* (with the lastIndex the call leaves in the RegExp object)
CallPredicate(expr, v) ==
    [value |-> CASE expr.predicate = "matches" -> RegExpTest(expr.regex, lastIndex, v.s).result
                 [] expr.predicate = "inRange" -> InRangeValue(expr, v.s)
                 [] OTHER -> PredicateValue(expr.predicate, v),
     raised |-> expr.predicate = "raising",
     calls |-> {[colId |-> expr.colId, predicate |-> expr.predicate, arg |-> v,
                 lastIndex |-> IF expr.predicate = "matches"
                               THEN RegExpTest(expr.regex, lastIndex, v.s).lastIndex
                               ELSE lastIndex]}]

(***************************************************************************)
(* EVALUATION ENGINE                                                       *)
(* An evaluation gives the value returned (when none of the predicates     *)
(* raised) and the predicate calls it made.                                *)
(***************************************************************************)
Evaluated(value, raised, calls) == [value |-> value, raised |-> raised, calls |-> calls]

\* results[expr.colId]
Lookup(valueMap, colId) ==
    IF colId \in DOMAIN valueMap THEN valueMap[colId] ELSE Undefined

\* Mutant of EvaluateAtom: the predicate is called without the null/undefined test
EvaluateAtomUnguarded(expr, valueMap) ==
    CallPredicate(expr, Lookup(valueMap, expr.colId))

\* case 'atom'
EvaluateAtom(expr, valueMap) ==
    LET value == Lookup(valueMap, expr.colId)
    IN IF value = Null \/ value = Undefined
       THEN Evaluated(FALSE, FALSE, {})
       ELSE CallPredicate(expr, value)

\* Mutant of EvaluateImplies: the implication read as a conjunction
EvaluateImpliesAsAnd(premiseHolds, conclusionHolds) ==
    premiseHolds /\ conclusionHolds

\* case 'implies', given the evaluations of premise and conclusion
EvaluateImplies(premiseHolds, conclusionHolds) ==
    ~premiseHolds \/ conclusionHolds

\* case 'iff', given the evaluations of left and right
EvaluateIff(leftHolds, rightHolds) ==
    leftHolds = rightHolds

RECURSIVE evaluateExpression(_, _)
evaluateExpression(expr, valueMap) ==
    CASE expr.type = "atom" -> EvaluateAtom(expr, valueMap)
      [] expr.type = "and" ->
             LET l == evaluateExpression(expr.left, valueMap)
             IN IF l.raised \/ ~l.value THEN l
                ELSE LET r == evaluateExpression(expr.right, valueMap)
                     IN Evaluated(r.value, r.raised, l.calls \cup r.calls)
      [] expr.type = "or" ->
             LET l == evaluateExpression(expr.left, valueMap)
             IN IF l.raised \/ l.value THEN l
                ELSE LET r == evaluateExpression(expr.right, valueMap)
                     IN Evaluated(r.value, r.raised, l.calls \cup r.calls)
      [] expr.type = "implies" ->
             LET p == evaluateExpression(expr.premise, valueMap)
             IN IF p.raised THEN p
                ELSE LET q == evaluateExpression(expr.conclusion, valueMap)
                     IN Evaluated(~q.raised /\ EvaluateImplies(p.value, q.value),
                                  q.raised, p.calls \cup q.calls)
      [] expr.type = "not" ->
             LET o == evaluateExpression(expr.operand, valueMap)
             IN Evaluated(~o.raised /\ ~o.value, o.raised, o.calls)
      [] expr.type = "iff" ->
             LET l == evaluateExpression(expr.left, valueMap)
             IN IF l.raised THEN l
                ELSE LET r == evaluateExpression(expr.right, valueMap)
                     IN Evaluated(~r.raised /\ EvaluateIff(l.value, r.value),
                                  r.raised, l.calls \cup r.calls)

\* Extract all column IDs referenced in a formula: the list returned, or the
\* TypeError raised by reading `.type` of undefined
RECURSIVE getAffectedColumns(_)
getAffectedColumns(expr) ==
    CASE expr = Undefined -> [raised |-> TRUE, cols |-> <<>>]
      [] expr.type = "atom" -> [raised |-> FALSE, cols |-> <<expr.colId>>]
      [] expr.type \in {"and", "or", "implies", "iff"} ->
             LET l == getAffectedColumns(Property(expr, "left"))
                 r == getAffectedColumns(Property(expr, "right"))
             IN IF l.raised \/ r.raised
                THEN [raised |-> TRUE, cols |-> <<>>]
                ELSE [raised |-> FALSE, cols |-> l.cols \o r.cols]
      [] expr.type = "not" -> getAffectedColumns(expr.operand)

(***************************************************************************)
(* VALIDATION FUNCTION                                                     *)
(***************************************************************************)
\* valueMap[colId] = cell?.value ?? null, for every entry of docResults
ValueMapOf(docResults) ==
    [colId \in DOMAIN docResults |->
        IF docResults[colId].kind = "value"
        THEN JsString(docResults[colId].value)
        ELSE Null]

ValidationResult(rule, satisfied, affected) ==
    [ruleId |-> rule.id, satisfied |-> satisfied, severity |-> rule.severity,
     message |-> [mark |-> IF satisfied THEN "pass" ELSE "violated",
                  description |-> rule.description],
     affectedColumns |-> affected]

Returns(list, evaluations) ==
    [raised |-> FALSE, value |-> list, evaluations |-> evaluations]

Raises(evaluations) ==
    [raised |-> TRUE, value |-> <<>>, evaluations |-> evaluations]

\* rules.map(...) from rule i on: the callback evaluates the formula, then builds the
\* result object, which calls getAffectedColumns; an error raised by either ends the map
RECURSIVE MapRules(_, _, _, _, _)
MapRules(i, ruleList, valueMap, list, evaluations) ==
    IF i > Len(ruleList)
    THEN Returns(list, evaluations)
    ELSE LET satisfied == evaluateExpression(ruleList[i].formula, valueMap)
             affected == getAffectedColumns(ruleList[i].formula)
         IN IF satisfied.raised \/ affected.raised
            THEN Raises(Append(evaluations, satisfied))
            ELSE MapRules(i + 1, ruleList, valueMap,
                          Append(list, ValidationResult(ruleList[i], satisfied.value, affected.cols)),
                          Append(evaluations, satisfied))

validateDocument(docId, res, ruleList) ==
    IF docId \notin DOMAIN res
    THEN Returns(<<>>, <<>>)
    ELSE MapRules(1, ruleList, ValueMapOf(res[docId]), <<>>, <<>>)

\* Mutant of ResultsAfterValidate: the loop over the entries writes the value it
\* read back into the record (a cell without value becomes null)
ResultsNormalisedInPlace(docId, res) ==
    IF docId \notin DOMAIN res
    THEN res
    ELSE [res EXCEPT ![docId] =
             [colId \in DOMAIN res[docId] |->
                 IF res[docId][colId].kind = "value" THEN res[docId][colId] ELSE NullCell]]

\* The results argument after a call of validateDocument: the values are copied
\* into the new object valueMap, and nothing is assigned to results or its cells
ResultsAfterValidate(docId, res) ==
    res

\* The lastIndex of the RegExp object after a call of validateDocument (a formula
\* holds the RegExp object in at most one atom)
LastIndexAfter(returned) ==
    LET made == UNION {returned.evaluations[i].calls : i \in DOMAIN returned.evaluations}
    IN IF \E call \in made : call.predicate = "matches"
       THEN (CHOOSE call \in made : call.predicate = "matches").lastIndex
       ELSE lastIndex

(***************************************************************************)
(* EXAMPLE RULES                                                           *)
(***************************************************************************)
Rule(id, description, f, severity) ==
    [id |-> id, description |-> description, formula |-> f, severity |-> severity]

DEFAULT_CONTRACT_RULES ==
    << Rule("rule_auto_renewal_requires_term",
            "If auto-renewal exists, term length must be specified",
            implies(isYes("col_proc_auto_renewal"), exists("col_term_length")), "error"),
       Rule("rule_termination_requires_notice",
            "If termination for convenience exists, notice period must be specified",
            implies(isYes("col_proc_term_convenience"), exists("col_notice_period")), "error"),
       Rule("rule_liability_cap_requires_amount",
            "If liability is capped, the cap amount must be specified",
            implies(isYes("col_proc_cap_liability"), exists("col_liability_amount")), "warning"),
       Rule("rule_mutual_exclusion_unlimited_cap",
            "Cannot have both unlimited liability and a liability cap",
            implies(isYes("col_unlimited_liability"), isNo("col_proc_cap_liability")), "error"),
       Rule("rule_insurance_with_cap",
            "If liability is capped, insurance requirement should be specified",
            implies(isYes("col_proc_cap_liability"), exists("col_proc_insurance")), "info") >>

(***************************************************************************)
(* Callers of the formal-logic module                                      *)
(***************************************************************************)
MaxDepth == 2

RECURSIVE Depth(_)
Depth(expr) ==
    CASE expr.type = "atom" -> 0
      [] expr.type = "not" -> 1 + Depth(expr.operand)
      [] expr.type = "implies" ->
             1 + (IF Depth(expr.premise) > Depth(expr.conclusion)
                  THEN Depth(expr.premise) ELSE Depth(expr.conclusion))
      [] OTHER ->
             1 + (IF Depth(expr.left) > Depth(expr.right)
                  THEN Depth(expr.left) ELSE Depth(expr.right))

Atoms ==
    {isYes("col_proc_auto_renewal"), exists("col_term_length"), raising("col_term_length")}

\* The formulas one more helper call makes of f
Composed(f) ==
    {not(f)} \cup UNION {{and(f, a), and(a, f), or(f, a), or(a, f),
                          implies(f, a), implies(a, f), iff(f, a), iff(a, f)} : a \in Atoms}

\* Rules a caller writes around the formula it built
RuleLists(f) ==
    {DEFAULT_CONTRACT_RULES,
     <<Rule("rule_custom", "Custom rule", f, "warning")>>,
     <<Rule("rule_term_missing", "Term length must be absent",
            not(exists("col_term_length")), "error"),
       Rule("rule_custom", "Custom rule", f, "info")>>}

LogicDocResults ==
    {[col_proc_auto_renewal |-> Cell(StrYes)],
     [col_proc_auto_renewal |-> Cell(StrNo), col_term_length |-> NullCell],
     [col_proc_auto_renewal |-> Cell(StrYes), col_term_length |-> Cell(Str24Months)],
     [col_proc_auto_renewal |-> NoValueCell, col_term_length |-> Cell(StrEmpty)]}

\* A caller wraps the formula in one more helper
Compose ==
    /\ lgPhase = "build"
    /\ Depth(formula) < MaxDepth
    /\ formula' \in Composed(formula)
    /\ UNCHANGED <<lgPhase, lgDocId, rules, lgReturn, lastIndex, evalLog, smtVars, appVars>>

\* A caller invokes validateDocument(docId, results, rules)
Validate ==
    /\ lgPhase = "build"
    /\ \E d \in {"doc1", "doc_unknown"}, ruleList \in RuleLists(formula) :
        /\ lgDocId' = d
        /\ rules' = ruleList
        /\ lgReturn' = validateDocument(d, results, ruleList)
        /\ lastIndex' = LastIndexAfter(validateDocument(d, results, ruleList))
        /\ results' = ResultsAfterValidate(d, results)
    /\ lgPhase' = "returned"
    /\ UNCHANGED <<formula, evalLog, smtVarsButResults, appVars>>

MaxEvaluations == 3

\* The rule a caller writes once around the formula and validates documents with
CustomRule ==
    Rule("rule_custom", "Custom rule", formula, "warning")

\* A caller invokes validateDocument(docId, results, [rule]) with the rule object it
\* built, any number of times
Evaluate ==
    /\ lgPhase \in {"build", "returned"}
    /\ Len(evalLog) < MaxEvaluations
    /\ \E d \in DOMAIN results :
        LET returned == validateDocument(d, results, <<CustomRule>>)
        IN /\ lgDocId' = d
           /\ lgReturn' = returned
           /\ lastIndex' = LastIndexAfter(returned)
           /\ evalLog' = Append(evalLog, [docId |-> d, returned |-> returned])
           /\ results' = ResultsAfterValidate(d, results)
    /\ rules' = <<CustomRule>>
    /\ lgPhase' = "returned"
    /\ UNCHANGED <<formula, smtVarsButResults, appVars>>

(***************************************************************************)
(* Inputs                                                                  *)
(***************************************************************************)
MaxConstraints == 2

RECURSIVE SeqsUpTo(_, _)
SeqsUpTo(S, n) ==
    IF n = 0 THEN {<<>>}
    ELSE LET shorter == SeqsUpTo(S, n - 1)
         IN shorter \cup {Append(q, e) : q \in {r \in shorter : Len(r) = n - 1}, e \in S}

\* Documents with cells for the columns the constraints read
SmtDocFull ==
    [col_term_length |-> Cell(Str24Months), col_notice_period |-> Cell(Str10),
     col_proc_auto_renewal |-> Cell(StrYes)]

SmtDocResults ==
    {SmtDocFull,
     [col_term_length |-> NullCell, col_notice_period |-> Cell(Str90),
      col_proc_auto_renewal |-> Cell(StrNo)],
     [col_term_length |-> Cell(Str90), col_notice_period |-> NoValueCell,
      col_proc_auto_renewal |-> Cell(StrYes)],
     [col_proc_auto_renewal |-> Cell(StrYes)],
     [col_term_length |-> Cell(Str1000Dollars), col_notice_period |-> Cell(Str30Days),
      col_proc_auto_renewal |-> Cell(StrNo)]}

\* App.tsx before any column is defined
InitRunIdle ==
    /\ documents = << >>
    /\ resultsState = EmptyMap
    /\ runPhase = "idle"
    /\ tasks = {}
    /\ smtIndex = 0

(***************************************************************************)
(* components/VerificationSidebar.tsx: the blob URL of the PDF view        *)
(***************************************************************************)
MaxUrls == 3

\* URLs: those URL.createObjectURL hands to the sidebar, the legacy fileUrl of a
\* document (created by the upload), and null
NoUrl == [origin |-> "null", n |-> 0]
CreatedUrl(n) == [origin |-> "created", n |-> n]
LegacyUrl(n) == [origin |-> "legacy", n |-> n]

\* The fields of a DocumentFile that the blob effect reads. originalFileBase64 is
\* "" when absent, "valid" when atob decodes it, "invalid" when atob raises
DocumentFile(n, originalFileBase64, fileUrl) ==
    [id |-> IF n = 1 THEN "doc1" ELSE "doc2", n |-> n,
     originalFileBase64 |-> originalFileBase64, fileUrl |-> fileUrl]

NoDocument == [id |-> "", n |-> 0, originalFileBase64 |-> "", fileUrl |-> NoUrl]

DocumentFiles ==
    {DocumentFile(n, b, f) : n \in {1, 2}, b \in {"", "valid", "invalid"},
                             f \in {NoUrl, LegacyUrl(1), LegacyUrl(2)}}

\* The dependency array of the blob effect
BlobDeps(mode, doc) ==
    <<mode, doc.id, doc.originalFileBase64, doc.fileUrl>>

NoCleanup == [registered |-> FALSE, document |-> NoDocument]

\* The body of the blob effect, run with viewMode `mode` and document `doc` while
\* pdfBlobUrl is `shown` and `count` URLs were created before: the local url, the
\* new pdfBlobUrl, the URLs created and the cleanup returned
BlobEffect(mode, doc, shown, count) ==
    IF mode # "pdf" \/ doc = NoDocument
    THEN [url |-> NoUrl, pdfBlobUrl |-> shown, created |-> {}, cleanup |-> NoCleanup]
    ELSE IF doc.originalFileBase64 = "valid"
         THEN [url |-> CreatedUrl(count + 1), pdfBlobUrl |-> CreatedUrl(count + 1),
               created |-> {CreatedUrl(count + 1)},
               cleanup |-> [registered |-> TRUE, document |-> doc]]
         ELSE [url |-> NoUrl, pdfBlobUrl |-> doc.fileUrl, created |-> {},
               cleanup |-> [registered |-> TRUE, document |-> doc]]

\* Mutant of RevokedByCleanup: the cleanup also revokes the document's fileUrl
RevokedWithLegacy(c, u, revoked) ==
    IF c.registered
    THEN revoked \cup ({u, c.document.fileUrl} \ {NoUrl})
    ELSE revoked

\* The URLs revoked once the cleanup `c` of the effect whose local url is `u` has run
RevokedByCleanup(c, u, revoked) ==
    IF c.registered /\ u # NoUrl /\ c.document.originalFileBase64 # ""
    THEN revoked \cup {u}
    ELSE revoked

\* A commit in which the blob effect is torn down and run again
RerunBlobEffect(mode, doc) ==
    /\ revokedUrls' = RevokedByCleanup(cleanup, url, revokedUrls)
    /\ url' = BlobEffect(mode, doc, pdfBlobUrl, Cardinality(createdUrls)).url
    /\ pdfBlobUrl' = BlobEffect(mode, doc, pdfBlobUrl, Cardinality(createdUrls)).pdfBlobUrl
    /\ createdUrls' = createdUrls \cup
                          BlobEffect(mode, doc, pdfBlobUrl, Cardinality(createdUrls)).created
    /\ cleanup' = BlobEffect(mode, doc, pdfBlobUrl, Cardinality(createdUrls)).cleanup

\* The sidebar is mounted with a document (or none): viewMode starts as 'text'
Mount(doc) ==
    /\ ~mounted
    /\ mounted' = TRUE
    /\ document' = doc
    /\ viewMode' = "text"
    /\ RerunBlobEffect("text", doc)
    /\ UNCHANGED outsideSidebar

\* setViewMode(mode), by the Text / Original PDF buttons or a citation click
SetViewMode(mode) ==
    /\ mounted
    /\ mode # viewMode
    /\ Cardinality(createdUrls) < MaxUrls
    /\ viewMode' = mode
    /\ RerunBlobEffect(mode, document)
    /\ UNCHANGED <<mounted, document, outsideSidebar>>

\* The parent renders the sidebar with another document object
ChangeDocument(doc) ==
    /\ mounted
    /\ doc # document
    /\ Cardinality(createdUrls) < MaxUrls
    /\ document' = doc
    /\ IF BlobDeps(viewMode, doc) # BlobDeps(viewMode, document)
       THEN RerunBlobEffect(viewMode, doc)
       ELSE UNCHANGED <<url, pdfBlobUrl, createdUrls, revokedUrls, cleanup>>
    /\ UNCHANGED <<mounted, viewMode, outsideSidebar>>

\* The sidebar is unmounted: the cleanup runs and the state is gone
Unmount ==
    /\ mounted
    /\ mounted' = FALSE
    /\ revokedUrls' = RevokedByCleanup(cleanup, url, revokedUrls)
    /\ document' = NoDocument
    /\ viewMode' = "text"
    /\ pdfBlobUrl' = NoUrl
    /\ url' = NoUrl
    /\ cleanup' = NoCleanup
    /\ UNCHANGED <<createdUrls, outsideSidebar>>

NextSidebar ==
    \/ \E doc \in DocumentFiles \cup {NoDocument} : Mount(doc)
    \/ \E mode \in {"text", "pdf"} : SetViewMode(mode)
    \/ \E doc \in DocumentFiles \cup {NoDocument} : ChangeDocument(doc)
    \/ Unmount

\* No sidebar is mounted
InitSidebarIdle ==
    /\ mounted = FALSE
    /\ document = NoDocument
    /\ viewMode = "text"
    /\ pdfBlobUrl = NoUrl
    /\ url = NoUrl
    /\ cleanup = NoCleanup
    /\ createdUrls = {}
    /\ revokedUrls = {}

\* How many times Run Analysis is clicked
MaxRuns == 2

RunIds == 1..MaxRuns

\* A call of processExtraction that was not made yet
UnusedRun ==
    [phase |-> "unused", aborted |-> FALSE, results |-> EmptyMap, docsToProcess |-> << >>,
     colsToProcess |-> << >>, tasks |-> << >>, task |-> << >>, smtIndex |-> 0]

\* Run Analysis was never clicked
InitOverlapIdle ==
    /\ isProcessing = FALSE
    /\ abortControllerRef = 0
    /\ columnStatus = << >>
    /\ runs = [r \in RunIds |-> UnusedRun]
    /\ started = 0

\* runConsensusExtraction was not called
InitConsensusIdle ==
    /\ consensusPhase = "idle"
    /\ agentResults = <<NoField, NoField, NoField>>
    /\ consensusCell = NoField

CacheDocs == {"doc1", "doc2"}

NoEntry == [present |-> FALSE]

\* getOrCreateCache was never called
InitCacheIdle ==
    /\ now = 0
    /\ cacheStore = [docId \in CacheDocs |-> NoEntry]
    /\ cacheLocks = [docId \in CacheDocs |-> 0]
    /\ creations = <<>>
    /\ cacheCalls = <<>>

NoError == [thrown |-> FALSE]

\* withRetry was not called
InitRetryIdle ==
    /\ retryPhase = "idle"
    /\ provider = "gemini"
    /\ retries = 0
    /\ currentTry = 0
    /\ invocations = 0
    /\ lastError = NoError
    /\ retryResult = NoError

InitServicesIdle ==
    /\ InitSidebarIdle
    /\ InitOverlapIdle
    /\ InitConsensusIdle
    /\ InitCacheIdle
    /\ InitRetryIdle

InitAppIdle ==
    /\ columns = << >>
    /\ InitRunIdle
    /\ InitServicesIdle

InitLogicIdle ==
    /\ formula = isYes("col_proc_auto_renewal")
    /\ lgPhase = "off"
    /\ lgDocId = ""
    /\ rules = <<>>
    /\ lgReturn = NoField
    /\ lastIndex = 0
    /\ evalLog = <<>>

InitSMT(catalog, docs) ==
    /\ z3Instance = 0
    /\ initCount = 0
    /\ constraints \in SeqsUpTo(catalog, MaxConstraints)
    /\ results \in {[d \in {"doc1"} |-> r] : r \in docs}
    /\ pc = [p \in Calls |-> "idle"]
    /\ ctx = [p \in Calls |-> 0]
    /\ docIdOf = [p \in Calls |-> ""]
    /\ idx = [p \in Calls |-> 0]
    /\ solver = [p \in Calls |-> {}]
    /\ extractedValues = [p \in Calls |-> EmptyMap]
    /\ validationResults = [p \in Calls |-> <<>>]
    /\ outcomes = [p \in Calls |-> <<>>]
    /\ modelAfterCheck \in ModelAnswers
    /\ InitLogicIdle

\* Two callers whose validateWithSMT calls may overlap in any way
Init ==
    /\ InitSMT({smt_notice_period_range, smt_term_length_bounds, custom_malformed},
               {SmtDocFull})
    /\ InitAppIdle

Next ==
    \E p \in Calls :
        \/ Call(p)
        \/ InitResolve(p)
        \/ Enter(p)
        \/ CheckResolve(p)

Spec == Init /\ [][Next]_vars

\* One caller, every constraint of the catalog, every document
InitBatch ==
    /\ InitSMT(ConstraintCatalog, SmtDocResults)
    /\ InitAppIdle

NextBatch ==
    \/ Call("a")
    \/ InitResolve("a")
    \/ Enter("a")
    \/ CheckResolve("a")

SpecBatch == InitBatch /\ [][NextBatch]_vars

\* The formal-logic module: a caller builds a formula, then validates a document
InitLogic ==
    /\ z3Instance = 0
    /\ initCount = 0
    /\ constraints = <<>>
    /\ results \in {[d \in {"doc1"} |-> r] : r \in LogicDocResults}
    /\ pc = [p \in Calls |-> "idle"]
    /\ ctx = [p \in Calls |-> 0]
    /\ docIdOf = [p \in Calls |-> ""]
    /\ idx = [p \in Calls |-> 0]
    /\ solver = [p \in Calls |-> {}]
    /\ extractedValues = [p \in Calls |-> EmptyMap]
    /\ validationResults = [p \in Calls |-> <<>>]
    /\ outcomes = [p \in Calls |-> <<>>]
    /\ modelAfterCheck = "raises"
    /\ formula \in Atoms
    /\ lgPhase = "build"
    /\ lgDocId = ""
    /\ rules = <<>>
    /\ lgReturn = NoField
    /\ lastIndex = 0
    /\ evalLog = <<>>
    /\ InitAppIdle

NextLogic ==
    \/ Compose
    \/ Validate

SpecLogic == InitLogic /\ [][NextLogic]_vars

\* The atoms the provided constructors build over one column, plain and negated
BuiltInFormulas ==
    LET atoms == {isYes("col_term_length"), isNo("col_term_length"),
                  exists("col_term_length"), isEmpty("col_term_length"),
                  inRange("col_term_length", 1, 60),
                  matches("col_term_length", RegExp({})),
                  matches("col_term_length", RegExp({"g"})),
                  matches("col_term_length", RegExp({"y"}))}
    IN atoms \cup {not(a) : a \in atoms}

\* Records: no entry for the column, a null cell, and cells with a value
PredicateDocResults ==
    {EmptyMap,
     [col_term_length |-> NullCell],
     [col_term_length |-> Cell(StrEmpty)],
     [col_term_length |-> Cell(StrYes)],
     [col_term_length |-> Cell(Str24Months)]}

\* The built-in predicates: a caller validates two documents with one rule, repeatedly
InitPredicates ==
    /\ z3Instance = 0
    /\ initCount = 0
    /\ constraints = <<>>
    /\ results \in [{"doc1", "doc2"} -> PredicateDocResults]
    /\ pc = [p \in Calls |-> "idle"]
    /\ ctx = [p \in Calls |-> 0]
    /\ docIdOf = [p \in Calls |-> ""]
    /\ idx = [p \in Calls |-> 0]
    /\ solver = [p \in Calls |-> {}]
    /\ extractedValues = [p \in Calls |-> EmptyMap]
    /\ validationResults = [p \in Calls |-> <<>>]
    /\ outcomes = [p \in Calls |-> <<>>]
    /\ modelAfterCheck = "raises"
    /\ formula \in BuiltInFormulas
    /\ lgPhase = "build"
    /\ lgDocId = ""
    /\ rules = <<>>
    /\ lgReturn = NoField
    /\ lastIndex = 0
    /\ evalLog = <<>>
    /\ InitAppIdle

NextPredicates ==
    Evaluate

SpecPredicates == InitPredicates /\ [][NextPredicates]_vars

\* Texts an amount cell can hold
AmountTexts ==
    {<<"1", "0", "0", "0">>,
     <<"$", "1", ",", "0", "0", "0", ",", "0", "0", "0">>,
     <<"1", ".", "5", "M">>,
     <<"2", "5", "K">>,
     <<"1", "5", "%">>,
     <<"5", " ", "m", "o", "n", "t", "h", "s">>,
     <<"1", "2", " ", "w", "e", "e", "k", "s">>,
     <<"u", "n", "k", "n", "o", "w", "n">>,
     <<"M", "a", "r", "k", "e", "t", " ", "r", "a", "t", "e">>,
     <<"%">>,
     <<>>,
     <<"-", "1", "0", "0">>,
     <<"0", ".", "5">>}

\* A caller converts the columns' rules: convertColumnRulesToConstraints(columns)
Convert ==
    /\ pc["a"] = "idle"
    /\ constraints = << >>
    /\ constraints' = convertColumnRulesToConstraints(columns)
    /\ UNCHANGED <<z3Instance, initCount, results, pc, ctx, docIdOf, idx, solver,
                   extractedValues, validationResults, outcomes, modelAfterCheck,
                   lgVars, appVars>>

RuleNonNegative ==
    SmtRule("rule_1", "ge", <<"0">>, "Amount must be >= 0")

RuleAtMost100 ==
    SmtRule("rule_2", "le", <<"1", "0", "0">>, "")

\* Column lists a project can have: a number column and a text column, with rules
\* or without (a column keeps its rules when its type is changed)
ColumnLists ==
    { << Column("col_amount", "Amount", "number", <<RuleNonNegative>>) >>,
      << Column("col_amount", "Amount", "number", <<RuleNonNegative, RuleAtMost100>>) >>,
      << Column("col_notes", "Notes", "text", <<RuleNonNegative>>),
         Column("col_amount", "Amount", "number", <<RuleAtMost100>>) >>,
      << Column("col_notes", "Notes", "text", << >>),
         Column("col_amount", "Amount", "number", << >>) >> }

DynamicDocResults ==
    {[col_amount |-> Cell(text), col_notes |-> Cell(Str24Months)] : text \in AmountTexts}

\* User-declared rules: the columns' rules are converted, then a document is validated
InitDynamic ==
    /\ InitSMT({}, DynamicDocResults)
    /\ columns \in ColumnLists
    /\ InitRunIdle
    /\ InitServicesIdle

NextDynamic ==
    \/ Convert
    \/ NextBatch

SpecDynamic == InitDynamic /\ [][NextDynamic]_vars

\* Payment records: upfront, recurring, term and total as extracted texts
PaymentDocResults ==
    {[col_upfront_payment |-> Cell(upfront), col_recurring_payment |-> Cell(recurring),
      col_term_length |-> Cell(<<"2", "4">>), col_total_payment |-> Cell(total)] :
        upfront \in {<<"$", "1", "0", ",", "0", "0", "0">>, <<"-", "1", "0", "0">>, <<"0">>},
        recurring \in {<<"$", "5", "0", "0">>, <<"0">>},
        total \in {<<"$", "2", "2", ",", "0", "0", "0">>,
                   <<"$", "2", "0", ",", "0", "0", "0">>,
                   <<"$", "2", "2", ",", "1", "0", "0">>,
                   <<"$", "2", "2", ",", "3", "0", "0">>,
                   <<"-", "1", "0", "0">>,
                   <<"0">>}}

\* The payment arithmetic constraint over payment records
InitPayment ==
    /\ InitSMT({smt_payment_terms_arithmetic}, PaymentDocResults)
    /\ InitAppIdle

SpecPayment == InitPayment /\ [][NextBatch]_vars

\* Both validators on the same results: validateWithSMT over default constraints
\* and validateDocument over the rules a caller wrote
InitBoth ==
    /\ z3Instance = 0
    /\ initCount = 0
    /\ constraints \in SeqsUpTo({smt_term_length_bounds, smt_auto_renewal_requires_term,
                                  custom_malformed}, MaxConstraints)
    /\ results \in {[d \in {"doc1"} |-> r] : r \in SmtDocResults}
    /\ pc = [p \in Calls |-> "idle"]
    /\ ctx = [p \in Calls |-> 0]
    /\ docIdOf = [p \in Calls |-> ""]
    /\ idx = [p \in Calls |-> 0]
    /\ solver = [p \in Calls |-> {}]
    /\ extractedValues = [p \in Calls |-> EmptyMap]
    /\ validationResults = [p \in Calls |-> <<>>]
    /\ outcomes = [p \in Calls |-> <<>>]
    /\ modelAfterCheck = "model"
    /\ formula \in Atoms
    /\ lgPhase = "build"
    /\ lgDocId = ""
    /\ rules = <<>>
    /\ lgReturn = NoField
    /\ lastIndex = 0
    /\ evalLog = <<>>
    /\ InitAppIdle

NextBoth ==
    \/ NextBatch
    \/ Validate

SpecBoth == InitBoth /\ [][NextBoth]_vars

(***************************************************************************)
(* Properties                                                              *)
(***************************************************************************)
\* The parsed value of a column of constraint c in a document (booleans are 1/0)
ObservedValue(c, docResults, colId) ==
    ExtractValue(CellValueOrEmpty(docResults, colId), VarTypeOf(c, colId)).num

\* Do the observed values of the document satisfy constraint c's own assertions
ConstraintHoldsOn(c, docResults) ==
    \A i \in DOMAIN c.constraint :
        LET d == c.constraint[i]
        IN /\ d.x \in VarCols(c)
           /\ d.y = "" \/ d.y \in VarCols(c)
           /\ CASE d.op = "ge" -> ObservedValue(c, docResults, d.x) >= d.k
                [] d.op = "le" -> ObservedValue(c, docResults, d.x) <= d.k
                [] d.op = "gt" -> ObservedValue(c, docResults, d.x) > d.k
                [] d.op = "eq" -> ObservedValue(c, docResults, d.x) = d.k
                [] d.op = "implies_gt" ->
                       (ObservedValue(c, docResults, d.x) = 1)
                           => (ObservedValue(c, docResults, d.y) > d.k)
                [] d.op = "istrue" -> ObservedValue(c, docResults, d.x) = 1
                [] d.op = "not" -> ObservedValue(c, docResults, d.x) = 0

\* The Z3 constants constraint c declares
DeclaredConsts(c) ==
    {DeclareVar(colId, VarTypeOf(c, colId)) : colId \in VarCols(c)}

\* C1: isolation. In every call, also with another call interleaved, the solver
\* that is being checked holds assertions over the current constraint's own
\* constants only, and every definite answer of the solver for a constraint is the
\* one its own assertions and the document's values give: 'sat' (and a satisfied
\* result) when the observed values satisfy it, 'unsat' only when they do not,
\* whatever happened to the constraints before it.
C1_Isolation ==
    \A p \in Calls :
        /\ pc[p] = "awaitCheck" => VarsOf(solver[p]) \subseteq DeclaredConsts(constraints[idx[p]])
        /\ \A i \in DOMAIN validationResults[p] :
            LET holds == ConstraintHoldsOn(constraints[i], results[docIdOf[p]])
            IN /\ validationResults[p][i].satisfied => holds
               /\ outcomes[p][i].check = "sat" => validationResults[p][i].satisfied
               /\ outcomes[p][i].check = "unsat" => ~holds

\* C1 witness: a violated first constraint, a satisfied second one, while the
\* other call is waiting for its own check
C1_Witness ==
    \E p \in Calls, q \in Calls :
        /\ p # q
        /\ Len(validationResults[p]) = 2
        /\ outcomes[p][1].check = "unsat"
        /\ ~validationResults[p][1].satisfied
        /\ validationResults[p][2].satisfied
        /\ pc[q] = "awaitCheck"
        /\ Len(validationResults[q]) = 1

\* C2: the Z3 context is created at most once, and every caller that has got a
\* context has got the same one.
C2_SingleContext ==
    /\ initCount <= 1
    /\ \A p \in Calls, q \in Calls : (ctx[p] # 0 /\ ctx[q] # 0) => ctx[p] = ctx[q]

\* C3: a constraint whose handling raised has a result with satisfied = false,
\* severity 'warning' and the error text as explanation, and a finished call on an
\* existing document has one result for every constraint of the batch.
C3_ErrorBecomesWarning ==
    /\ \A i \in DOMAIN validationResults["a"] :
           outcomes["a"][i].error # "" =>
               /\ ~validationResults["a"][i].satisfied
               /\ validationResults["a"][i].severity = "warning"
               /\ validationResults["a"][i].explanation.present
               /\ validationResults["a"][i].explanation.kind = "error"
               /\ validationResults["a"][i].explanation.error = outcomes["a"][i].error
    /\ (pc["a"] = "done" /\ docIdOf["a"] \in DOMAIN results)
           => Len(validationResults["a"]) = Len(constraints)

\* C3 witness: an error-severity constraint raised, and the constraint after it
\* was still checked and found satisfied
C3_Witness ==
    /\ pc["a"] = "done"
    /\ Len(validationResults["a"]) = 2
    /\ outcomes["a"][1].error = "TypeError"
    /\ constraints[1].severity = "error"
    /\ validationResults["a"][2].satisfied

\* C4: a check that ended 'unknown' gives an error-severity result whose message
\* is not the violation message and whose explanation is not the violation one.
C4_UnknownIsUndecided ==
    \A i \in DOMAIN validationResults["a"] :
        outcomes["a"][i].check = "unknown" =>
            /\ ~validationResults["a"][i].satisfied
            /\ validationResults["a"][i].severity = "error"
            /\ validationResults["a"][i].message.mark # "violated"

\* C5: a check that ended 'unsat' gives a failed result with the constraint's own
\* severity and an explanation listing the observed value of every variable,
\* whatever solver.model() does; without a model there is no counterExample.
C5_UnsatIsViolation ==
    \A i \in DOMAIN validationResults["a"] :
        outcomes["a"][i].check = "unsat" =>
            /\ ~validationResults["a"][i].satisfied
            /\ validationResults["a"][i].severity = constraints[i].severity
            /\ validationResults["a"][i].message.mark = "violated"
            /\ validationResults["a"][i].explanation.present
            /\ validationResults["a"][i].explanation.kind = "values"
            /\ DOMAIN validationResults["a"][i].explanation.values = VarCols(constraints[i])
            /\ outcomes["a"][i].model # "model"
                   => ~validationResults["a"][i].counterExample.present

\* C6: the constraints are handled one after another in the order given: result i
\* is the result of constraint i, the check of a constraint is awaited only when
\* all constraints before it have their result, and a finished call on an existing
\* document has exactly one result per constraint.
C6_OrderedResults ==
    /\ Len(validationResults["a"]) = Len(outcomes["a"])
    /\ Len(validationResults["a"]) <= Len(constraints)
    /\ \A i \in DOMAIN validationResults["a"] :
           validationResults["a"][i].constraintId = constraints[i].id
    /\ pc["a"] = "awaitCheck" => Len(validationResults["a"]) = idx["a"] - 1
    /\ (pc["a"] = "done" /\ docIdOf["a"] \in DOMAIN results)
           => Len(validationResults["a"]) = Len(constraints)

\* C6 witness: a finished call over two different constraints, the first of which
\* raised and the second of which ended 'unknown'
C6_Witness ==
    /\ pc["a"] = "done"
    /\ Len(constraints) = 2
    /\ Len(validationResults["a"]) = 2
    /\ constraints[1].id # constraints[2].id
    /\ outcomes["a"][1].check = "not_reached"
    /\ outcomes["a"][2].check = "unknown"
    /\ validationResults["a"][2].constraintId = constraints[2].id

\* Does the formula use only the predicates of the helper functions (none raises)
RECURSIVE TotalPredicates(_)
TotalPredicates(expr) ==
    CASE expr.type = "atom" -> expr.predicate # "raising"
      [] expr.type = "not" -> TotalPredicates(expr.operand)
      [] expr.type = "implies" -> TotalPredicates(expr.premise) /\ TotalPredicates(expr.conclusion)
      [] OTHER -> TotalPredicates(expr.left) /\ TotalPredicates(expr.right)

\* Is the column without a value in the document: no entry, a null cell, or a
\* cell without value
AbsentIn(docResults, colId) ==
    \/ colId \notin DOMAIN docResults
    \/ docResults[colId].kind # "value"

\* The propositional reading of a formula over a document
RECURSIVE Truth(_, _)
Truth(expr, docResults) ==
    CASE expr.type = "atom" ->
             /\ ~AbsentIn(docResults, expr.colId)
             /\ PredicateValue(expr.predicate, JsString(docResults[expr.colId].value))
      [] expr.type = "and" -> Truth(expr.left, docResults) /\ Truth(expr.right, docResults)
      [] expr.type = "or" -> Truth(expr.left, docResults) \/ Truth(expr.right, docResults)
      [] expr.type = "implies" -> (~Truth(expr.premise, docResults)) \/ Truth(expr.conclusion, docResults)
      [] expr.type = "not" -> ~Truth(expr.operand, docResults)
      [] expr.type = "iff" -> Truth(expr.left, docResults) = Truth(expr.right, docResults)

\* The column ids of the atoms of a formula
RECURSIVE AtomColumns(_)
AtomColumns(expr) ==
    CASE expr.type = "atom" -> {expr.colId}
      [] expr.type = "not" -> AtomColumns(expr.operand)
      [] expr.type = "implies" -> AtomColumns(expr.premise) \cup AtomColumns(expr.conclusion)
      [] OTHER -> AtomColumns(expr.left) \cup AtomColumns(expr.right)

Range(q) ==
    {q[i] : i \in DOMAIN q}

\* C7: every evaluation validateDocument made of a formula over total predicates
\* returned the value of the propositional reading: implies as (not p) or q, iff
\* as equality, not as negation, and/or as conjunction/disjunction.
C7_PropositionalSemantics ==
    lgPhase = "returned" =>
        \A i \in DOMAIN lgReturn.evaluations :
            TotalPredicates(rules[i].formula) =>
                /\ ~lgReturn.evaluations[i].raised
                /\ lgReturn.evaluations[i].value = Truth(rules[i].formula, results[lgDocId])

\* C7 witness: an implication with a false premise and a false conclusion, under
\* another connective, was evaluated
C7_Witness ==
    /\ lgPhase = "returned"
    /\ lgDocId \in DOMAIN results
    /\ Len(lgReturn.evaluations) = 1
    /\ rules[1].formula.type = "iff"
    /\ rules[1].formula.left.type = "implies"
    /\ ~Truth(rules[1].formula.left.premise, results[lgDocId])
    /\ ~Truth(rules[1].formula.left.conclusion, results[lgDocId])
    /\ TotalPredicates(rules[1].formula)
    /\ lgReturn.evaluations[1].value = Truth(rules[1].formula.right, results[lgDocId])

C9_AffectedColumnsExact ==
    (lgPhase = "returned" /\ lgDocId \in DOMAIN results) =>
        \A i \in DOMAIN rules :
            (\A j \in 1..i : TotalPredicates(rules[j].formula)) =>
                /\ ~lgReturn.raised
                /\ Range(lgReturn.value[i].affectedColumns) = AtomColumns(rules[i].formula)

\* C10: for a document that has a record, validateDocument returns one result per
\* rule, in rule order, with the rule's id and severity and satisfied equal to the
\* value of the rule's formula.
C10_OneResultPerRule ==
    (/\ lgPhase = "returned"
     /\ lgDocId \in DOMAIN results
     /\ \A i \in DOMAIN rules : TotalPredicates(rules[i].formula)) =>
        /\ ~lgReturn.raised
        /\ Len(lgReturn.value) = Len(rules)
        /\ \A i \in DOMAIN lgReturn.value :
               /\ lgReturn.value[i].ruleId = rules[i].id
               /\ lgReturn.value[i].severity = rules[i].severity
               /\ lgReturn.value[i].satisfied = Truth(rules[i].formula, results[lgDocId])

\* C11: and/or evaluate both operands. When validateDocument evaluated a rule whose
\* formula is and(left, right) or or(left, right) and the left operand did not
\* raise, every predicate call of the right operand was made, and a right operand
\* that raises made validateDocument raise, also when the left operand alone decides.
C11_BothOperandsEvaluated ==
    (/\ lgPhase = "returned"
     /\ lgDocId \in DOMAIN results
     /\ Len(rules) = 1
     /\ rules[1].formula.type \in {"and", "or"}) =>
        LET valueMap == ValueMapOf(results[lgDocId])
            l == evaluateExpression(rules[1].formula.left, valueMap)
            r == evaluateExpression(rules[1].formula.right, valueMap)
        IN ~l.raised =>
               /\ r.calls \subseteq lgReturn.evaluations[1].calls
               /\ r.raised => lgReturn.raised

\* The value a document's record holds for a column, as the evaluator sees it
ValueSeen(docResults, colId) ==
    Lookup(ValueMapOf(docResults), colId)

\* C12: evaluation is deterministic and keeps no hidden state. Any two calls of
\* validateDocument made with the same rule on the same document returned the same
\* results, whatever was evaluated in between.
C12_Deterministic ==
    \A i \in DOMAIN evalLog, j \in DOMAIN evalLog :
        evalLog[i].docId = evalLog[j].docId
            => evalLog[i].returned.value = evalLog[j].returned.value

\* C13: isEmpty(colId) is true exactly when the record holds the empty string, a
\* null value or no entry for colId, and every evaluation of isEmpty(colId) gives
\* the negation of what exists(colId) gives on the same record.
C13_IsEmptyNegatesExists ==
    \A i \in DOMAIN evalLog :
        formula = isEmpty("col_term_length") =>
            LET docResults == results[evalLog[i].docId]
                valueMap == ValueMapOf(docResults)
                seen == ValueSeen(docResults, "col_term_length")
            IN /\ ~evalLog[i].returned.raised
               /\ evalLog[i].returned.value[1].satisfied
                      = (seen \in {JsString(StrEmpty), Null, Undefined})
               /\ evalLog[i].returned.value[1].satisfied
                      = ~evaluateExpression(exists("col_term_length"), valueMap).value

\* The text validateWithSMT reads from the cell of a column of the document
TextOf(p, colId) ==
    CellValueOrEmpty(results[docIdOf[p]], colId)

\* No number can be read from the text once '$' and ',' are stripped
NoNumber(text) ==
    parseFloat(RemoveAll(text, {"$", ","})).nan

\* C14: parseToReal is total with default 0. No constraint ends in the error
\* outcome because the text of a 'real' variable cannot be parsed, and the value
\* extracted for a 'real' variable is never NaN and is 0 for a text without number.
C14_UnparseableRealIsZero ==
    /\ \A i \in DOMAIN outcomes["a"] : outcomes["a"][i].error # "Z3Error"
    /\ pc["a"] = "awaitCheck" =>
           \A colId \in DOMAIN extractedValues["a"] :
               extractedValues["a"][colId].kind = "real" =>
                   /\ ~extractedValues["a"][colId].num.nan
                   /\ NoNumber(TextOf("a", colId))
                          => extractedValues["a"][colId].num = Rat(0, 1)

\* The number a text denotes: '$' and ',' stripped, the numeric prefix scaled by
\* the suffix the text ends with (M, K or %), a plain decimal otherwise
ScaledBySuffix(clean) ==
    IF clean = << >> THEN Rat(0, 1)
    ELSE IF clean[Len(clean)] \in {"M", "m"} THEN RMul(parseFloat(clean), Rat(1000000, 1))
    ELSE IF clean[Len(clean)] \in {"K", "k"} THEN RMul(parseFloat(clean), Rat(1000, 1))
    ELSE IF clean[Len(clean)] = "%" THEN RMul(parseFloat(clean), Rat(1, 100))
    ELSE OrZero(parseFloat(clean))

\* C15: the value extracted for a 'real' variable is the numeric prefix of the
\* text (after stripping '$' and ','), times 1,000,000 or 1,000 exactly when the
\* text ends with M or K, divided by 100 exactly when it ends with '%', and the
\* plain decimal otherwise.
C15_SuffixScaling ==
    pc["a"] = "awaitCheck" =>
        \A colId \in DOMAIN extractedValues["a"] :
            extractedValues["a"][colId].kind = "real" =>
                extractedValues["a"][colId].num
                    = ScaledBySuffix(RemoveAll(TextOf("a", colId), {"$", ","}))

\* C16: the value extracted for an 'int' variable is the integer the text
\* denotes: the first group of digits, read with its thousands commas and without
\* the currency symbol.
C16_IntegerDenoted ==
    pc["a"] = "awaitCheck" =>
        \A colId \in DOMAIN extractedValues["a"] :
            extractedValues["a"][colId].kind = "int" =>
                extractedValues["a"][colId].num
                    = parseToInt(RemoveAll(TextOf("a", colId), {"$", ","}))

RAbs(x) ==
    IF x.nan THEN NaN ELSE Rat(Abs(x.num), x.den)

\* total deviates from upfront + recurring * term by at most 1% of the total
WithinTolerance(upfront, recurring, term, total) ==
    RLe(RAbs(RSub(total, RAdd(upfront, RMul(recurring, Rat(term, 1))))),
        RMul(RAbs(total), Rat(1, 100)))

\* C17: a definite answer for smt_payment_terms_arithmetic marks the record
\* satisfied exactly when the parsed total is within the 1% tolerance of
\* upfront + recurring * term (an exact match included, for zero and negative
\* totals too), and a violation reported for it explains itself with the four
\* parsed values.
C17_PaymentArithmetic ==
    \A i \in DOMAIN validationResults["a"] :
        outcomes["a"][i].check \in {"sat", "unsat"} =>
            /\ outcomes["a"][i].model # "raises" =>
                   validationResults["a"][i].satisfied
                       = WithinTolerance(ObservedValue(constraints[i], results[docIdOf["a"]], "col_upfront_payment"),
                                         ObservedValue(constraints[i], results[docIdOf["a"]], "col_recurring_payment"),
                                         ObservedValue(constraints[i], results[docIdOf["a"]], "col_term_length"),
                                         ObservedValue(constraints[i], results[docIdOf["a"]], "col_total_payment"))
            /\ validationResults["a"][i].message.mark = "violated" =>
                   \A colId \in VarCols(constraints[i]) :
                       /\ colId \in DOMAIN validationResults["a"][i].explanation.values
                       /\ validationResults["a"][i].explanation.values[colId].num
                              = ObservedValue(constraints[i], results[docIdOf["a"]], colId)

\* Every (column, rule) pair of the columns, in column order then rule order
RECURSIVE RulePairs(_, _, _)
RulePairs(cols, i, j) ==
    IF i > Len(cols) THEN << >>
    ELSE IF j > Len(cols[i].smtRules) THEN RulePairs(cols, i + 1, 1)
    ELSE << <<cols[i], cols[i].smtRules[j]>> >> \o RulePairs(cols, i, j + 1)

\* C18: the constraints converted from the columns are one per (column, rule)
\* pair, in order, each over that column only and with the single assertion that
\* compares the variable with the rule's threshold by the rule's operator.
C18_OneConstraintPerRule ==
    constraints # << >> =>
        /\ Len(constraints) = Len(RulePairs(columns, 1, 1))
        /\ \A n \in DOMAIN constraints :
               /\ constraints[n].variableMap = << <<RulePairs(columns, 1, 1)[n][1].id, "real">> >>
               /\ constraints[n].affectedColumns = <<RulePairs(columns, 1, 1)[n][1].id>>
               /\ Len(constraints[n].constraint) = 1
               /\ constraints[n].constraint[1].op = "r" \o RulePairs(columns, 1, 1)[n][2].operator
               /\ constraints[n].constraint[1].lit = parseFloat(RulePairs(columns, 1, 1)[n][2].value)

StrError == <<"E", "r", "r", "o", "r">>

\* The first constraints of DEFAULT_SMT_CONSTRAINTS, in their order
DEFAULT_SMT_CONSTRAINTS ==
    <<smt_term_length_bounds, smt_notice_period_range, smt_auto_renewal_requires_term,
      smt_payment_terms_arithmetic>>

\* A cell as an extraction task writes it (no validationErrors yet)
ExtractedCell(value, status) ==
    [kind |-> "value", value |-> value, status |-> status, validationErrors |-> << >>]

\* What the extraction of one cell can give: an answer with high or low confidence,
\* an empty answer, or the error cell of the catch block
ExtractedCells(col) ==
    IF col.type = "boolean"
    THEN {ExtractedCell(StrYes, "verified"), ExtractedCell(StrNo, "needs_review"),
          ExtractedCell(StrError, "error")}
    ELSE {ExtractedCell(Str24Months, "verified"), ExtractedCell(StrEmpty, "needs_review"),
          ExtractedCell(StrError, "error")}

\* { ...(prev[doc.id] || {}), [col.id]: cell }
WithCell(docCells, colId, cell) ==
    [c \in DOMAIN docCells \cup {colId} |-> IF c = colId THEN cell ELSE docCells[c]]

\* { ...prev, [doc.id]: { ...(prev[doc.id] || {}), [col.id]: cell } }
WriteCell(prev, docId, colId, cell) ==
    [d \in DOMAIN prev \cup {docId} |->
        IF d = docId
        THEN WithCell(IF docId \in DOMAIN prev THEN prev[docId] ELSE EmptyMap, colId, cell)
        ELSE prev[d]]

\* The tasks pushed by the nested loops: the cells the closure's results lack
FlattenTasks(docs, cols, res) ==
    {task \in {[doc |-> docs[i], col |-> cols[j]] : i \in DOMAIN docs, j \in DOMAIN cols} :
        ~(task.doc \in DOMAIN res /\ task.col.id \in DOMAIN res[task.doc])}

\* list.filter(r => !r.satisfied)
Unsatisfied(list) ==
    SelectSeq(list, LAMBDA r : ~r.satisfied)

\* The message a formal-logic violation adds to a cell: violation.message
LogicErrorMsg(violation) ==
    violation.message

\* The message an SMT violation adds to a cell: `[SMT] ` followed by the message,
\* with the explanation in brackets when there is one
SmtErrorMsg(violation) ==
    [smt |-> TRUE, message |-> violation.message, explanation |-> violation.explanation]

\* The cell written for an affected column that has a cell
MarkCell(cell, severity, errorMsg) ==
    [cell EXCEPT !.status = IF severity = "error" THEN "validation_failed" ELSE "needs_review",
                 !.validationErrors = Append(@, errorMsg)]

\* violation.affectedColumns.forEach from column n on: columns without a cell are skipped
RECURSIVE MarkColumns(_, _, _, _, _)
MarkColumns(docCells, affectedColumns, n, severity, errorMsg) ==
    IF n > Len(affectedColumns)
    THEN docCells
    ELSE MarkColumns(IF affectedColumns[n] \in DOMAIN docCells
                     THEN [docCells EXCEPT ![affectedColumns[n]] =
                              MarkCell(docCells[affectedColumns[n]], severity, errorMsg)]
                     ELSE docCells,
                     affectedColumns, n + 1, severity, errorMsg)

\* The violations with the message each adds to a cell
LogicMarks(violations) ==
    [n \in DOMAIN violations |->
        [affectedColumns |-> violations[n].affectedColumns,
         severity |-> violations[n].severity,
         errorMsg |-> LogicErrorMsg(violations[n])]]

SmtMarks(smtViolations) ==
    [n \in DOMAIN smtViolations |->
        [affectedColumns |-> smtViolations[n].affectedColumns,
         severity |-> smtViolations[n].severity,
         errorMsg |-> SmtErrorMsg(smtViolations[n])]]

\* The updater handed to setResults, from violation n on
RECURSIVE MarkViolations(_, _, _, _)
MarkViolations(prev, docId, marks, n) ==
    IF n > Len(marks) \/ docId \notin DOMAIN prev
    THEN prev
    ELSE MarkViolations([prev EXCEPT ![docId] =
                            MarkColumns(prev[docId], marks[n].affectedColumns, 1,
                                        marks[n].severity, marks[n].errorMsg)],
                        docId, marks, n + 1)

\* The formal-logic loop over docsToProcess from document i on: the state after the
\* updaters queued so far, and whether validateDocument raised (nothing catches it)
RECURSIVE LogicLoop(_, _, _, _)
LogicLoop(i, docsToProcess, res, prev) ==
    IF i > Len(docsToProcess)
    THEN [raised |-> FALSE, results |-> prev]
    ELSE IF validateDocument(docsToProcess[i], res, DEFAULT_CONTRACT_RULES).raised
         THEN [raised |-> TRUE, results |-> prev]
         ELSE LogicLoop(i + 1, docsToProcess, res,
                        MarkViolations(prev, docsToProcess[i],
                                       LogicMarks(Unsatisfied(
                                           validateDocument(docsToProcess[i], res,
                                                            DEFAULT_CONTRACT_RULES).value)),
                                       1))

\* Run Analysis is clicked: processExtraction(documents, columns) starts and flattens the tasks
handleRunAnalysis ==
    /\ runPhase \in {"idle", "done", "rejected"}
    /\ Len(documents) # 0
    /\ Len(columns) # 0
    /\ results' = resultsState
    /\ tasks' = FlattenTasks(documents, columns, resultsState)
    /\ runPhase' = "extracting"
    /\ UNCHANGED <<smtVarsButResults, lgVars, columns, documents, resultsState, smtIndex, svcVars>>

\* One task settles and writes its cell
ExtractionTask(task) ==
    /\ runPhase = "extracting"
    /\ task \in tasks
    /\ \E cell \in ExtractedCells(task.col) :
        resultsState' = WriteCell(resultsState, task.doc, task.col.id, cell)
    /\ tasks' = tasks \ {task}
    /\ UNCHANGED <<smtVars, lgVars, columns, documents, runPhase, smtIndex, svcVars>>

\* Promise.all settled: the formal-logic validation of all documents, in one go
LogicValidation ==
    /\ runPhase = "extracting"
    /\ tasks = {}
    /\ resultsState' = LogicLoop(1, documents, results, resultsState).results
    /\ IF LogicLoop(1, documents, results, resultsState).raised
       THEN /\ runPhase' = "rejected"
            /\ smtIndex' = smtIndex
       ELSE /\ runPhase' = "smt"
            /\ smtIndex' = 1
    /\ UNCHANGED <<smtVars, lgVars, columns, documents, tasks, svcVars>>

\* The SMT loop calls validateWithSMT(doc.id, results, allConstraints) for its document
SmtValidationCall ==
    /\ runPhase = "smt"
    /\ pc["a"] = "idle"
    /\ constraints' = DEFAULT_SMT_CONSTRAINTS \o convertColumnRulesToConstraints(columns)
    /\ docIdOf' = [docIdOf EXCEPT !["a"] = documents[smtIndex]]
    /\ getZ3Context_Start("a")
    /\ UNCHANGED <<z3Instance, initCount, results, idx, solver, extractedValues,
                   validationResults, outcomes, modelAfterCheck, lgVars, appVars>>

\* validateWithSMT returned: the violations are marked and the loop goes on
SmtValidationReturn ==
    /\ runPhase = "smt"
    /\ pc["a"] = "done"
    /\ resultsState' = MarkViolations(resultsState, documents[smtIndex],
                                      SmtMarks(Unsatisfied(validationResults["a"])), 1)
    /\ pc' = [pc EXCEPT !["a"] = "idle"]
    /\ idx' = [idx EXCEPT !["a"] = 0]
    /\ solver' = [solver EXCEPT !["a"] = {}]
    /\ extractedValues' = [extractedValues EXCEPT !["a"] = EmptyMap]
    /\ validationResults' = [validationResults EXCEPT !["a"] = << >>]
    /\ outcomes' = [outcomes EXCEPT !["a"] = << >>]
    /\ IF smtIndex = Len(documents)
       THEN /\ runPhase' = "done"
            /\ smtIndex' = 0
       ELSE /\ runPhase' = "smt"
            /\ smtIndex' = smtIndex + 1
    /\ UNCHANGED <<z3Instance, initCount, constraints, results, ctx, docIdOf,
                   modelAfterCheck, lgVars, columns, documents, tasks, svcVars>>

\* The project of the runs: two documents, a boolean column and a number column
AppColumns ==
    << Column("col_proc_auto_renewal", "Auto-renewal", "boolean", << >>),
       Column("col_term_length", "Term length", "number", <<RuleNonNegative>>) >>

InitApp ==
    /\ z3Instance = 0
    /\ initCount = 0
    /\ constraints = << >>
    /\ results = EmptyMap
    /\ pc = [p \in Calls |-> "idle"]
    /\ ctx = [p \in Calls |-> 0]
    /\ docIdOf = [p \in Calls |-> ""]
    /\ idx = [p \in Calls |-> 0]
    /\ solver = [p \in Calls |-> {}]
    /\ extractedValues = [p \in Calls |-> EmptyMap]
    /\ validationResults = [p \in Calls |-> <<>>]
    /\ outcomes = [p \in Calls |-> <<>>]
    /\ modelAfterCheck = "model"
    /\ InitLogicIdle
    /\ columns = AppColumns
    /\ documents = <<"doc1", "doc2">>
    /\ resultsState = EmptyMap
    /\ runPhase = "idle"
    /\ tasks = {}
    /\ smtIndex = 0
    /\ InitServicesIdle

NextApp ==
    \/ handleRunAnalysis
    \/ \E task \in tasks : ExtractionTask(task)
    \/ LogicValidation
    \/ SmtValidationCall
    \/ InitResolve("a")
    \/ Enter("a")
    \/ SmtValidationReturn

SpecApp == InitApp /\ [][NextApp]_vars

\* Does the document's record violate the rule, as the formal-logic tier evaluates it
RuleViolated(rule, docResults) ==
    /\ ~evaluateExpression(rule.formula, ValueMapOf(docResults)).raised
    /\ ~evaluateExpression(rule.formula, ValueMapOf(docResults)).value

\* Does the document's record contradict the constraint, as the SMT tier binds it
ConstraintViolated(c, docResults) ==
    /\ ~PrepareCheck(c, docResults, {}).threw
    /\ ~Satisfiable(PrepareCheck(c, docResults, {}).solver)

\* The message is on every affected column that has a cell, and on one at least
Attached(docId, errorMsg, affected) ==
    /\ docId \in DOMAIN resultsState
    /\ \E colId \in affected : colId \in DOMAIN resultsState[docId]
    /\ \A colId \in affected \cap DOMAIN resultsState[docId] :
           errorMsg \in Range(resultsState[docId][colId].validationErrors)

\* allConstraints of the SMT loop
AllConstraints ==
    DEFAULT_SMT_CONSTRAINTS \o convertColumnRulesToConstraints(columns)

\* The message of the violation the SMT tier reports for a contradicted constraint
ExpectedSmtMsg(c, docResults) ==
    SmtErrorMsg(NotSatResult(c, PrepareCheck(c, docResults, {}).extracted, EmptyMap))

IsPrefix(s, t) ==
    /\ Len(s) <= Len(t)
    /\ \A n \in DOMAIN s : s[n] = t[n]

\* C20: violations are additive per field and never dropped. When the validation
\* phase of a run is over, every rule and every constraint that a document the run
\* validated violates has its message in the validationErrors of its affected cells,
\* and of one cell at least; and no step removes or overwrites a message a cell
\* already carries: the old messages stay a prefix of the new ones.
C20_ViolationsAdditive ==
    /\ [](runPhase \in {"done", "rejected"} =>
            \A n \in DOMAIN documents :
                documents[n] \in DOMAIN results =>
                    /\ \A r \in DOMAIN DEFAULT_CONTRACT_RULES :
                           RuleViolated(DEFAULT_CONTRACT_RULES[r], results[documents[n]]) =>
                               Attached(documents[n],
                                        [mark |-> "violated",
                                         description |-> DEFAULT_CONTRACT_RULES[r].description],
                                        AtomColumns(DEFAULT_CONTRACT_RULES[r].formula))
                    /\ \A c \in DOMAIN AllConstraints :
                           ConstraintViolated(AllConstraints[c], results[documents[n]]) =>
                               Attached(documents[n],
                                        ExpectedSmtMsg(AllConstraints[c], results[documents[n]]),
                                        Range(AllConstraints[c].affectedColumns)))
    /\ [][\A d \in DOMAIN resultsState : \A colId \in DOMAIN resultsState[d] :
              (d \in DOMAIN resultsState' /\ colId \in DOMAIN resultsState'[d]) =>
                  IsPrefix(resultsState[d][colId].validationErrors,
                           resultsState'[d][colId].validationErrors)]_vars

\* Do the validators of the run get, for the document, the cell values the state holds
SameValues(docId) ==
    /\ docId \in DOMAIN results
    /\ \A colId \in DOMAIN resultsState[docId] :
           /\ colId \in DOMAIN results[docId]
           /\ results[docId][colId].value = resultsState[docId][colId].value

\* C21: when the extraction of a run is over and the run validates, both tiers are
\* evaluated over the cell values extracted in that run (the results state after the
\* tasks wrote their cells), not over the results as they were when the run started;
\* so when the run is done, a rule the freshly extracted values violate is marked.
C21_ValidatesExtractedValues ==
    /\ runPhase \in {"smt", "done", "rejected"} =>
           \A n \in DOMAIN documents :
               documents[n] \in DOMAIN resultsState => SameValues(documents[n])
    /\ runPhase = "done" =>
           \A n \in DOMAIN documents : \A r \in DOMAIN DEFAULT_CONTRACT_RULES :
               (/\ documents[n] \in DOMAIN resultsState
                /\ RuleViolated(DEFAULT_CONTRACT_RULES[r], resultsState[documents[n]])) =>
                   Attached(documents[n],
                            [mark |-> "violated",
                             description |-> DEFAULT_CONTRACT_RULES[r].description],
                            AtomColumns(DEFAULT_CONTRACT_RULES[r].formula))

(***************************************************************************)
(* The components on their own: the validators and the run are idle        *)
(***************************************************************************)
InitCoreIdle ==
    /\ z3Instance = 0
    /\ initCount = 0
    /\ constraints = << >>
    /\ results = EmptyMap
    /\ pc = [p \in Calls |-> "idle"]
    /\ ctx = [p \in Calls |-> 0]
    /\ docIdOf = [p \in Calls |-> ""]
    /\ idx = [p \in Calls |-> 0]
    /\ solver = [p \in Calls |-> {}]
    /\ extractedValues = [p \in Calls |-> EmptyMap]
    /\ validationResults = [p \in Calls |-> <<>>]
    /\ outcomes = [p \in Calls |-> <<>>]
    /\ modelAfterCheck = "model"
    /\ InitLogicIdle
    /\ columns = << >>
    /\ InitRunIdle

InitSidebar ==
    /\ InitCoreIdle
    /\ InitSidebarIdle
    /\ InitOverlapIdle
    /\ InitConsensusIdle
    /\ InitCacheIdle
    /\ InitRetryIdle

SpecSidebar == InitSidebar /\ [][NextSidebar]_vars

\* C22: the blob URLs of the sidebar. Every URL that was revoked is one the sidebar
\* created (a legacy fileUrl is never revoked, shown as fallback or not), and a URL
\* the sidebar created is unrevoked only while the effect that created it is live:
\* after unmount, or once that effect was torn down, it is revoked.
C22_BlobUrlLifecycle ==
    /\ \A u \in revokedUrls : u.origin = "created"
    /\ revokedUrls \subseteq createdUrls
    /\ createdUrls \ revokedUrls \subseteq
           (IF mounted /\ cleanup.registered /\ viewMode = "pdf" THEN {url} ELSE {})

\* C22 witness: the sidebar created a URL for a document, the document changed to one
\* whose base64 data does not decode, the created URL was revoked and the legacy
\* fileUrl is shown as the fallback, unrevoked
C22_Witness ==
    /\ mounted
    /\ viewMode = "pdf"
    /\ document.originalFileBase64 = "invalid"
    /\ pdfBlobUrl = document.fileUrl
    /\ pdfBlobUrl.origin = "legacy"
    /\ createdUrls # {}
    /\ revokedUrls = createdUrls

(***************************************************************************)
(* App.tsx: runs of processExtraction that overlap. Stop and Clear abort   *)
(* the controller of the active run and leave its promises running; Run    *)
(* Analysis is offered again as soon as isProcessing is false. Each run    *)
(* has its own controller, its own closure (results, docsToProcess,        *)
(* colsToProcess) and its own tasks. The validators are the operators of   *)
(* the sections above; validateWithSMT is awaited once per document.       *)
(***************************************************************************)
\* The tasks in the order the nested loops push them
TaskList(docs, cols, res) ==
    SelectSeq([k \in 1..(Len(docs) * Len(cols)) |->
                  [doc |-> docs[((k - 1) \div Len(cols)) + 1],
                   col |-> cols[((k - 1) % Len(cols)) + 1]]],
              LAMBDA task : task \in FlattenTasks(docs, cols, res))

\* A run as processExtraction leaves it at its first await: the first task is past
\* both abort checks and awaits its extraction call, the others await their timeout
NewRun(docs, cols, res) ==
    [phase |-> "extracting", aborted |-> FALSE, results |-> res, docsToProcess |-> docs,
     colsToProcess |-> cols, tasks |-> TaskList(docs, cols, res),
     task |-> [k \in DOMAIN TaskList(docs, cols, res) |->
                  IF k = 1 THEN "inflight" ELSE "staggered"],
     smtIndex |-> 0]

\* abortControllerRef.current.abort(), when there is a controller
Abort(rs, ref) ==
    [r \in RunIds |-> IF r = ref THEN [rs[r] EXCEPT !.aborted = TRUE] ELSE rs[r]]

\* prev.map(c => colsToProcess.some(target => target.id === c.id) ? {...c, status} : c)
SetStatus(cols, statuses, colsToProcess, status) ==
    [j \in DOMAIN statuses |->
        IF \E t \in DOMAIN colsToProcess : colsToProcess[t].id = cols[j].id
        THEN status
        ELSE statuses[j]]

\* prev.map(c => c.status === 'extracting' ? {...c, status: 'idle'} : c)
ResetExtracting(statuses) ==
    [j \in DOMAIN statuses |-> IF statuses[j] = "extracting" THEN "idle" ELSE statuses[j]]

\* Mutant of Finally: the cleanup runs whoever holds the controller reference
FinallyUnguarded(r, statuses) ==
    [isProcessing |-> FALSE, abortControllerRef |-> 0, columnStatus |-> ResetExtracting(statuses)]

\* The finally block of run r, with the column statuses as the run left them
Finally(r, statuses) ==
    IF abortControllerRef = r
    THEN [isProcessing |-> FALSE, abortControllerRef |-> 0,
          columnStatus |-> ResetExtracting(statuses)]
    ELSE [isProcessing |-> isProcessing, abortControllerRef |-> abortControllerRef,
          columnStatus |-> statuses]

\* Run r ends: its finally block runs
Finish(r, statuses) ==
    /\ isProcessing' = Finally(r, statuses).isProcessing
    /\ abortControllerRef' = Finally(r, statuses).abortControllerRef
    /\ columnStatus' = Finally(r, statuses).columnStatus

\* Run Analysis is clicked (the button is shown while isProcessing is false)
RunAnalysis ==
    /\ ~isProcessing
    /\ Len(documents) # 0
    /\ Len(columns) # 0
    /\ started < MaxRuns
    /\ started' = started + 1
    /\ runs' = [Abort(runs, abortControllerRef) EXCEPT
                   ![started + 1] = NewRun(documents, columns, resultsState)]
    /\ abortControllerRef' = started + 1
    /\ isProcessing' = TRUE
    /\ columnStatus' = SetStatus(columns, columnStatus, columns, "extracting")
    /\ UNCHANGED <<smtVars, lgVars, columns, runVars, sidebarVars, consensusVars, cacheVars, retryVars>>

\* Stop is clicked (the button is shown while isProcessing is true)
handleStopExtraction ==
    /\ isProcessing
    /\ IF abortControllerRef # 0
       THEN /\ runs' = Abort(runs, abortControllerRef)
            /\ isProcessing' = FALSE
       ELSE UNCHANGED <<runs, isProcessing>>
    /\ UNCHANGED <<abortControllerRef, columnStatus, started>>
    /\ UNCHANGED <<smtVars, lgVars, columns, runVars, sidebarVars, consensusVars, cacheVars, retryVars>>

\* Clear is clicked and confirmed
handleClearAll ==
    /\ runs' = Abort(runs, abortControllerRef)
    /\ isProcessing' = FALSE
    /\ documents' = << >>
    /\ columns' = << >>
    /\ columnStatus' = << >>
    /\ resultsState' = EmptyMap
    /\ UNCHANGED <<abortControllerRef, started>>
    /\ UNCHANGED <<smtVars, lgVars, runPhase, tasks, smtIndex, sidebarVars, consensusVars, cacheVars, retryVars>>

\* A document is removed from the grid (the grid is covered while isProcessing)
handleRemoveDoc(docId) ==
    /\ ~isProcessing
    /\ \E n \in DOMAIN documents : documents[n] = docId
    /\ documents' = SelectSeq(documents, LAMBDA d : d # docId)
    /\ resultsState' = [d \in DOMAIN resultsState \ {docId} |-> resultsState[d]]
    /\ UNCHANGED <<overlapVars, smtVars, lgVars, columns, runPhase, tasks, smtIndex, sidebarVars, consensusVars, cacheVars, retryVars>>

\* The timeout of a staggered task fires: the task returns when the controller is
\* aborted, and calls the extraction otherwise
TaskWake(r, k) ==
    /\ runs[r].phase = "extracting"
    /\ k \in DOMAIN runs[r].task
    /\ runs[r].task[k] = "staggered"
    /\ runs' = [runs EXCEPT ![r].task[k] = IF runs[r].aborted THEN "returned" ELSE "inflight"]
    /\ UNCHANGED <<isProcessing, abortControllerRef, columnStatus, started>>
    /\ UNCHANGED <<smtVars, lgVars, columns, runVars, sidebarVars, consensusVars, cacheVars, retryVars>>

\* The extraction call of a task settles: the task writes its cell (an extracted one,
\* or the error cell of the catch block)
TaskSettle(r, k) ==
    /\ runs[r].phase = "extracting"
    /\ k \in DOMAIN runs[r].task
    /\ runs[r].task[k] = "inflight"
    /\ \E cell \in ExtractedCells(runs[r].tasks[k].col) :
        resultsState' = WriteCell(resultsState, runs[r].tasks[k].doc,
                                  runs[r].tasks[k].col.id, cell)
    /\ runs' = [runs EXCEPT ![r].task[k] = "returned"]
    /\ UNCHANGED <<isProcessing, abortControllerRef, columnStatus, started>>
    /\ UNCHANGED <<smtVars, lgVars, columns, documents, runPhase, tasks, smtIndex, sidebarVars, consensusVars, cacheVars, retryVars>>

\* Promise.all settled. An aborted run goes to its finally block. Otherwise the
\* columns are marked completed and the formal-logic loop runs; an error it raises
\* leaves through the finally block; then the SMT loop awaits its first call
AfterExtraction(r) ==
    /\ runs[r].phase = "extracting"
    /\ \A k \in DOMAIN runs[r].task : runs[r].task[k] = "returned"
    /\ IF runs[r].aborted
       THEN /\ Finish(r, columnStatus)
            /\ runs' = [runs EXCEPT ![r].phase = "finished"]
            /\ UNCHANGED resultsState
       ELSE /\ resultsState' = LogicLoop(1, runs[r].docsToProcess, runs[r].results,
                                         resultsState).results
            /\ IF LogicLoop(1, runs[r].docsToProcess, runs[r].results, resultsState).raised
               THEN /\ Finish(r, SetStatus(columns, columnStatus, runs[r].colsToProcess,
                                           "completed"))
                    /\ runs' = [runs EXCEPT ![r].phase = "finished"]
               ELSE /\ columnStatus' = SetStatus(columns, columnStatus,
                                                 runs[r].colsToProcess, "completed")
                    /\ runs' = [runs EXCEPT ![r].phase = "smt", ![r].smtIndex = 1]
                    /\ UNCHANGED <<isProcessing, abortControllerRef>>
    /\ UNCHANGED started
    /\ UNCHANGED <<smtVars, lgVars, columns, documents, runPhase, tasks, smtIndex, sidebarVars, consensusVars, cacheVars, retryVars>>

\* `await validateWithSMT(doc.id, results, allConstraints)` settles for the document
\* of the loop: the closure has no record of it (the formal-logic loop raises for a
\* document that has one), so the call returned []; the loop goes on, aborted or not
SmtSettle(r) ==
    /\ runs[r].phase = "smt"
    /\ runs[r].docsToProcess[runs[r].smtIndex] \notin DOMAIN runs[r].results
    /\ resultsState' = MarkViolations(resultsState, runs[r].docsToProcess[runs[r].smtIndex],
                                      SmtMarks(Unsatisfied(<< >>)), 1)
    /\ IF runs[r].smtIndex = Len(runs[r].docsToProcess)
       THEN /\ Finish(r, columnStatus)
            /\ runs' = [runs EXCEPT ![r].phase = "finished"]
       ELSE /\ runs' = [runs EXCEPT ![r].smtIndex = @ + 1]
            /\ UNCHANGED <<isProcessing, abortControllerRef, columnStatus>>
    /\ UNCHANGED started
    /\ UNCHANGED <<smtVars, lgVars, columns, documents, runPhase, tasks, smtIndex, sidebarVars, consensusVars, cacheVars, retryVars>>

\* A project with one document and two columns, before the first run
InitOverlap ==
    /\ z3Instance = 0
    /\ initCount = 0
    /\ constraints = << >>
    /\ results = EmptyMap
    /\ pc = [p \in Calls |-> "idle"]
    /\ ctx = [p \in Calls |-> 0]
    /\ docIdOf = [p \in Calls |-> ""]
    /\ idx = [p \in Calls |-> 0]
    /\ solver = [p \in Calls |-> {}]
    /\ extractedValues = [p \in Calls |-> EmptyMap]
    /\ validationResults = [p \in Calls |-> <<>>]
    /\ outcomes = [p \in Calls |-> <<>>]
    /\ modelAfterCheck = "model"
    /\ InitLogicIdle
    /\ columns = AppColumns
    /\ documents = <<"doc1">>
    /\ resultsState = EmptyMap
    /\ runPhase = "idle"
    /\ tasks = {}
    /\ smtIndex = 0
    /\ InitSidebarIdle
    /\ InitConsensusIdle
    /\ InitCacheIdle
    /\ InitRetryIdle
    /\ isProcessing = FALSE
    /\ abortControllerRef = 0
    /\ columnStatus = <<"idle", "idle">>
    /\ runs = [r \in RunIds |-> UnusedRun]
    /\ started = 0

RunStep(r) ==
    \/ \E k \in DOMAIN runs[r].task : TaskWake(r, k)
    \/ \E k \in DOMAIN runs[r].task : TaskSettle(r, k)
    \/ AfterExtraction(r)
    \/ SmtSettle(r)

NextOverlap ==
    \/ RunAnalysis
    \/ handleStopExtraction
    \/ handleClearAll
    \/ \E docId \in {"doc1"} : handleRemoveDoc(docId)
    \/ \E r \in RunIds : RunStep(r)

SpecOverlap == InitOverlap /\ [][NextOverlap]_vars

\* Every extraction call and every solver call that is in flight settles
FairOverlap == \A r \in RunIds : WF_vars(RunStep(r))

SpecOverlapFair == SpecOverlap /\ FairOverlap

\* A run that is over or whose controller was aborted
Inactive(r) ==
    runs[r].phase \in {"unused", "finished"} \/ runs[r].aborted

\* C23: once the controller of a run is aborted (Stop, Clear, or a newer run), no
\* task of that run writes a cell into results, not even a task whose extraction
\* call was in flight; so while no run is active and no new run is started, results
\* stays empty once it is empty, and gets no entry for a document it has none for.
C23_NoWriteAfterAbort ==
    [][/\ \A r \in RunIds : \A k \in DOMAIN runs[r].task :
              (/\ runs[r].aborted
               /\ runs[r].task[k] = "inflight"
               /\ runs'[r].task[k] = "returned") => resultsState' = resultsState
       /\ ((\A r \in RunIds : Inactive(r)) /\ started' = started) =>
              DOMAIN resultsState' \subseteq DOMAIN resultsState]_vars

\* Nothing is being processed
Quiet ==
    /\ ~isProcessing
    /\ abortControllerRef = 0
    /\ \A j \in DOMAIN columnStatus : columnStatus[j] # "extracting"

\* C24: provided every call in flight settles, the application reaches again and
\* again a state where isProcessing is false, the controller reference is null and
\* no column is 'extracting'; and the end of a run that no longer holds the
\* controller reference (stopped and superseded by a newer run) changes neither
\* isProcessing, nor the reference, nor any column status.
C24_RunsSettle ==
    /\ []<>Quiet
    /\ [][\A r \in RunIds :
              (/\ runs[r].phase # "finished"
               /\ runs'[r].phase = "finished"
               /\ abortControllerRef # r) =>
                  /\ isProcessing' = isProcessing
                  /\ abortControllerRef' = abortControllerRef
                  /\ columnStatus' = columnStatus]_vars

\* C24 witness: a stopped run has ended while the newer run that superseded it is
\* still extracting and holds the controller reference
C24_Witness ==
    /\ runs[1].phase = "finished"
    /\ runs[1].aborted
    /\ runs[2].phase = "extracting"
    /\ ~runs[2].aborted
    /\ abortControllerRef = 2
    /\ isProcessing
    /\ \E j \in DOMAIN columnStatus : columnStatus[j] = "extracting"

\* ==========================================================================
\* services/consensusService.ts: three agents extract one cell and vote
\* ==========================================================================

AgentIds == 1..3

StrTrue == <<"T", "r", "u", "e">>
StrNotFound == <<"N", "o", "t", " ", "f", "o", "u", "n", "d">>
StrUnclear == <<" ", "U", "n", "c", "l", "e", "a", "r">>

\* The values an extraction service answers with: String(json.value || "")
AgentValues == {StrYes, StrNo, StrTrue, StrNotFound, StrUnclear, StrEmpty}

\* `Error: ${errorMsg.substring(0, 50)}` for the message "429"
ErrorValue == StrError \o <<":", " ", "4", "2", "9">>

NoteAgentsFailed == " (Note: Some agents failed)"

normalizeVote(value) ==
    IF value = <<>> THEN "unknown"
    ELSE IF \/ IsPrefix(<<"y", "e", "s">>, trim(toLowerCase(value)))
            \/ trim(toLowerCase(value)) = <<"t", "r", "u", "e">> THEN "yes"
    ELSE IF \/ IsPrefix(<<"n", "o">>, trim(toLowerCase(value)))
            \/ trim(toLowerCase(value)) = <<"f", "a", "l", "s", "e">> THEN "no"
    ELSE "unknown"

\* What the promise of agent agent resolves with when its service returned a cell
AgentResult(agent, value) ==
    [present |-> TRUE, value |-> value, confidence |-> "Medium",
     quote |-> <<"quote", agent>>, page |-> agent, reasoning |-> <<"reasoning", agent>>,
     modelId |-> agent, error |-> FALSE]

\* What the promise of agent agent resolves with when its service threw
AgentFailure(agent) ==
    [present |-> TRUE, value |-> ErrorValue, confidence |-> "Low",
     quote |-> <<>>, page |-> 0, reasoning |-> <<"Agent failed", agent>>,
     modelId |-> agent, error |-> TRUE]

consensusDetails(settled) ==
    [i \in DOMAIN settled |->
        [value |-> settled[i].value, confidence |-> settled[i].confidence,
         quote |-> settled[i].quote, reasoning |-> settled[i].reasoning,
         modelId |-> settled[i].modelId, vote |-> normalizeVote(settled[i].value),
         page |-> settled[i].page]]

Voted(details, vote) == {i \in DOMAIN details : details[i].vote = vote}

voteCounts(details) ==
    [yes |-> Cardinality(Voted(details, "yes")),
     no |-> Cardinality(Voted(details, "no")),
     unknown |-> Cardinality({i \in Voted(details, "unknown") :
                                ~IsPrefix(StrError, details[i].value)})]

validVotes(details) == Cardinality(DOMAIN details \ Voted(details, "unknown"))

winnerVote(counts) ==
    IF counts.yes > counts.no THEN "yes"
    ELSE IF counts.no > counts.yes THEN "no"
    ELSE "unknown"

\* the last element of a non-empty set of indices
findLast(found) ==
    CHOOSE i \in found : \A j \in found : j <= i
\* Array.prototype.find: the first element of a non-empty set of indices
find(found) ==
    CHOOSE i \in found : \A j \in found : i <= j

winner(details) ==
    IF Voted(details, winnerVote(voteCounts(details))) # {}
    THEN details[find(Voted(details, winnerVote(voteCounts(details))))]
    ELSE IF validVotes(details) = 0 THEN details[1]
    ELSE IF DOMAIN details \ Voted(details, "unknown") # {}
    THEN details[find(DOMAIN details \ Voted(details, "unknown"))]
    ELSE details[1]

isUnanimous(details) ==
    /\ validVotes(details) > 0
    /\ \/ voteCounts(details).yes = validVotes(details)
       \/ voteCounts(details).no = validVotes(details)

hasErrors(settled) == \E i \in DOMAIN settled : settled[i].error

\* reasoning + " (Note: Some agents failed)"
WithNote(reasoning, failed) ==
    IF failed THEN Append(reasoning, NoteAgentsFailed) ELSE reasoning

FinalCell(settled) ==
    [present |-> TRUE,
     value |-> winner(consensusDetails(settled)).value,
     confidence |-> IF isUnanimous(consensusDetails(settled)) /\ ~hasErrors(settled)
                    THEN "High" ELSE "Low",
     quote |-> winner(consensusDetails(settled)).quote,
     page |-> winner(consensusDetails(settled)).page,
     reasoning |-> WithNote(winner(consensusDetails(settled)).reasoning, hasErrors(settled)),
     status |-> IF isUnanimous(consensusDetails(settled)) /\ ~hasErrors(settled)
                THEN "verified" ELSE "disagreement",
     consensus |-> consensusDetails(settled)]

\* runConsensusExtraction is called: the three agents start in parallel
runConsensusExtraction ==
    /\ consensusPhase = "idle"
    /\ consensusPhase' = "running"
    /\ UNCHANGED <<agentResults, consensusCell, outsideConsensus>>

\* The service of agent agent returns a cell
AgentReturns(agent) ==
    /\ consensusPhase = "running"
    /\ ~agentResults[agent].present
    /\ \E value \in AgentValues :
          agentResults' = [agentResults EXCEPT ![agent] = AgentResult(agent, value)]
    /\ UNCHANGED <<consensusPhase, consensusCell, outsideConsensus>>

\* The service of agent agent throws
AgentFails(agent) ==
    /\ consensusPhase = "running"
    /\ ~agentResults[agent].present
    /\ agentResults' = [agentResults EXCEPT ![agent] = AgentFailure(agent)]
    /\ UNCHANGED <<consensusPhase, consensusCell, outsideConsensus>>

\* Promise.all resolved: the votes are counted and the final cell is returned
ConsensusReturns ==
    /\ consensusPhase = "running"
    /\ \A agent \in AgentIds : agentResults[agent].present
    /\ consensusPhase' = "returned"
    /\ consensusCell' = FinalCell(agentResults)
    /\ UNCHANGED <<agentResults, outsideConsensus>>

InitConsensus ==
    /\ InitCoreIdle
    /\ InitSidebarIdle
    /\ InitOverlapIdle
    /\ InitConsensusIdle
    /\ InitCacheIdle
    /\ InitRetryIdle

NextConsensus ==
    \/ runConsensusExtraction
    \/ \E agent \in AgentIds : AgentReturns(agent)
    \/ \E agent \in AgentIds : AgentFails(agent)
    \/ ConsensusReturns

SpecConsensus == InitConsensus /\ [][NextConsensus]_vars

\* The agents whose answer normalises to the given vote
AgentsVoting(vote) == {i \in AgentIds : normalizeVote(agentResults[i].value) = vote}

FailedAgents == {i \in AgentIds : agentResults[i].error}

\* The vote that wins by the majority rule
MajorityVote ==
    IF Cardinality(AgentsVoting("yes")) > Cardinality(AgentsVoting("no")) THEN "yes"
    ELSE IF Cardinality(AgentsVoting("no")) > Cardinality(AgentsVoting("yes")) THEN "no"
    ELSE "unknown"

LowestAgent(agents) == CHOOSE i \in agents : \A j \in agents : i <= j

MajorityDecides ==
    /\ winnerVote(voteCounts(consensusDetails(agentResults))) = MajorityVote
    /\ \A i \in FailedAgents : i \notin AgentsVoting("yes") \cup AgentsVoting("no")

RepresentativeButReasoning ==
    MajorityVote # "unknown" =>
        /\ consensusCell.value = agentResults[LowestAgent(AgentsVoting(MajorityVote))].value
        /\ consensusCell.quote = agentResults[LowestAgent(AgentsVoting(MajorityVote))].quote
        /\ consensusCell.page = agentResults[LowestAgent(AgentsVoting(MajorityVote))].page

\* C25: runConsensusExtraction decides by majority of the valid votes of its three
\* agents: yes wins iff strictly more agents voted yes than no, no wins iff strictly
\* more voted no than yes, unknown otherwise; a failed agent and an unknown answer
\* count for neither side. When yes or no wins, the returned value, quote and page
\* are those of the lowest-numbered agent that cast the winning vote, and the
\* returned reasoning is that agent's reasoning, followed by the note
\* " (Note: Some agents failed)" when an agent failed.
C25_MajorityRepresentative ==
    consensusPhase = "returned" =>
        /\ MajorityDecides
        /\ RepresentativeButReasoning
        /\ MajorityVote # "unknown" =>
              consensusCell.reasoning =
                  WithNote(agentResults[LowestAgent(AgentsVoting(MajorityVote))].reasoning,
                           FailedAgents # {})

\* C25 as stated: the returned reasoning is the reasoning of the representative
C25_ReasoningOfRepresentative ==
    consensusPhase = "returned" =>
        /\ MajorityDecides
        /\ RepresentativeButReasoning
        /\ MajorityVote # "unknown" =>
              consensusCell.reasoning =
                  agentResults[LowestAgent(AgentsVoting(MajorityVote))].reasoning

\* Agent 1 failed, agents 2 and 3 voted yes, and the cell carries agent 2's answer
C25_Witness ==
    /\ consensusPhase = "returned"
    /\ FailedAgents = {1}
    /\ AgentsVoting("yes") = {2, 3}
    /\ consensusCell.page = 2

\* C26: the returned cell has confidence High and status verified only when no
\* agent failed and at least two agents cast a valid yes/no vote; otherwise it has
\* confidence Low and status disagreement.
C26_HighOnlyWithEnoughVotes ==
    consensusPhase = "returned" =>
        IF FailedAgents = {} /\ Cardinality(AgentsVoting("yes") \cup AgentsVoting("no")) >= 2
        THEN TRUE
        ELSE consensusCell.confidence = "Low" /\ consensusCell.status = "disagreement"

\* C27: when at least one agent returned without error, the returned cell takes
\* its value from an agent that did not fail, never the placeholder of a failed one.
C27_ValueFromSuccessfulAgent ==
    (consensusPhase = "returned" /\ FailedAgents # AgentIds) =>
        /\ consensusCell.value # ErrorValue
        /\ \E i \in AgentIds \ FailedAgents :
              /\ consensusCell.value = agentResults[i].value
              /\ consensusCell.quote = agentResults[i].quote

\* ==========================================================================
\* services/geminiService.ts: getOrCreateCache, the context cache of a document
\* ==========================================================================

MaxCalls == 4
MaxTime == 3

\* CACHE_TTL_SECONDS * 1000 - 5000, in ticks
CacheLifetime == 2

\* docText.length of the documents: doc2 is too short to cache
DocTextLength(docId) ==
    IF docId = "doc1" THEN 1000 ELSE 999

\* what a creation promise resolves with when no cache was created
NullName == 0

ReturnedName(name) == [kind |-> "name", name |-> name]
ReturnedPromise(c) == [kind |-> "promise", creation |-> c]

\* existing && existing.expireTime > now
Unexpired(store, docId, t) ==
    /\ store[docId].present
    /\ store[docId].expireTime > t

\* no check of the lock
NeverInProgress(locks, docId) ==
    FALSE
\* cacheLocks.has(docId)
InProgress(locks, docId) ==
    locks[docId] # 0

\* The creation promise as it is when the async function hands it back: a short
\* document makes it resolve with null before any request is sent
NewCreation(docId) ==
    IF DocTextLength(docId) < 1000
    THEN [docId |-> docId, requested |-> FALSE, settled |-> TRUE, result |-> NullName]
    ELSE [docId |-> docId, requested |-> TRUE, settled |-> FALSE, result |-> NullName]

CallReturning(docId, returned) ==
    /\ cacheCalls' = Append(cacheCalls, [docId |-> docId, at |-> now, returned |-> returned])

\* One call of getOrCreateCache, up to the promise or the name it hands back. The
\* finally block of a creation that resolves at once runs before the lock is set.
getOrCreateCache(docId) ==
    /\ Len(cacheCalls) < MaxCalls
    /\ IF Unexpired(cacheStore, docId, now)
       THEN /\ CallReturning(docId, ReturnedName(cacheStore[docId].name))
            /\ UNCHANGED <<cacheLocks, creations>>
       ELSE IF InProgress(cacheLocks, docId)
       THEN /\ CallReturning(docId, ReturnedPromise(cacheLocks[docId]))
            /\ UNCHANGED <<cacheLocks, creations>>
       ELSE /\ creations' = Append(creations, NewCreation(docId))
            /\ cacheLocks' = [cacheLocks EXCEPT ![docId] = Len(creations) + 1]
            /\ CallReturning(docId, ReturnedPromise(Len(creations) + 1))
    /\ UNCHANGED <<now, cacheStore, outsideCache>>

\* client.caches.create resolved: the entry is stored and the lock released
CreateResolves(c) ==
    /\ creations[c].requested
    /\ ~creations[c].settled
    /\ cacheStore' = [cacheStore EXCEPT ![creations[c].docId] =
                        [present |-> TRUE, name |-> c, expireTime |-> now + CacheLifetime]]
    /\ creations' = [creations EXCEPT ![c].settled = TRUE, ![c].result = c]
    /\ cacheLocks' = [cacheLocks EXCEPT ![creations[c].docId] = 0]
    /\ UNCHANGED <<now, cacheCalls, outsideCache>>

\* client.caches.create rejected: the promise resolves with null, the lock is released
CreateRejects(c) ==
    /\ creations[c].requested
    /\ ~creations[c].settled
    /\ creations' = [creations EXCEPT ![c].settled = TRUE, ![c].result = NullName]
    /\ cacheLocks' = [cacheLocks EXCEPT ![creations[c].docId] = 0]
    /\ UNCHANGED <<now, cacheStore, cacheCalls, outsideCache>>

\* Time passes
Tick ==
    /\ now < MaxTime
    /\ now' = now + 1
    /\ UNCHANGED <<cacheStore, cacheLocks, creations, cacheCalls, outsideCache>>

InitCache ==
    /\ InitCoreIdle
    /\ InitSidebarIdle
    /\ InitOverlapIdle
    /\ InitConsensusIdle
    /\ InitCacheIdle
    /\ InitRetryIdle

NextCache ==
    \/ \E docId \in CacheDocs : getOrCreateCache(docId)
    \/ \E c \in DOMAIN creations : CreateResolves(c)
    \/ \E c \in DOMAIN creations : CreateRejects(c)
    \/ Tick

SpecCache == InitCache /\ [][NextCache]_vars

\* The creations of a document whose request is outstanding
InFlight(docId) ==
    {c \in DOMAIN creations :
        creations[c].docId = docId /\ creations[c].requested /\ ~creations[c].settled}

\* The step is a call of getOrCreateCache for docId
CalledFor(docId) ==
    /\ Len(cacheCalls') = Len(cacheCalls) + 1
    /\ cacheCalls'[Len(cacheCalls')].docId = docId

\* C28: getOrCreateCache never has two creations in flight for one document: at
\* most one create request per docId is outstanding at a time; a call that arrives
\* while a creation is in flight is handed the promise of that creation and sends
\* no request; and a call that finds an unexpired entry is handed its name and
\* sends no request.
C28_OneCreationInFlight ==
    /\ [](\A docId \in CacheDocs : Cardinality(InFlight(docId)) <= 1)
    /\ [][\A docId \in CacheDocs : CalledFor(docId) =>
            /\ \A c \in InFlight(docId) :
                  /\ cacheCalls'[Len(cacheCalls')].returned = ReturnedPromise(c)
                  /\ creations' = creations
            /\ Unexpired(cacheStore, docId, now) =>
                  /\ cacheCalls'[Len(cacheCalls')].returned =
                        ReturnedName(cacheStore[docId].name)
                  /\ creations' = creations]_vars

\* Two calls were handed the promise of one creation, which resolved, and a later
\* call was handed the stored name
C28_Witness ==
    \E j, k, m \in DOMAIN cacheCalls :
        /\ j < k /\ k < m
        /\ cacheCalls[j].returned.kind = "promise"
        /\ cacheCalls[k].returned = cacheCalls[j].returned
        /\ cacheCalls[m].returned =
              ReturnedName(creations[cacheCalls[j].returned.creation].result)
        /\ cacheCalls[m].at > cacheCalls[k].at

\* ==========================================================================
\* services/geminiService.ts, services/claudeService.ts: withRetry
\* ==========================================================================

MaxRetries == 5

Providers == {"gemini", "claude"}

Msg429 == <<"H", "T", "T", "P", " ", "4", "2", "9">>
MsgExhausted == <<"R", "E", "S", "O", "U", "R", "C", "E", "_",
                  "E", "X", "H", "A", "U", "S", "T", "E", "D">>
MsgQuota == <<"q", "u", "o", "t", "a", " ", "h", "i", "t">>
MsgRateLimit == <<"r", "a", "t", "e", "_", "l", "i", "m", "i", "t">>
MsgEmpty == <<"E", "m", "p", "t", "y">>

\* An error object as far as withRetry reads it; 0 and "" stand for a missing field
ThrownError(status, code, type, message) ==
    [thrown |-> TRUE, status |-> status, code |-> code, type |-> type, message |-> message]

ErrStatus429 == ThrownError(429, 0, "", MsgEmpty)
ErrCode429 == ThrownError(0, 429, "", MsgEmpty)
ErrTypeRateLimit == ThrownError(0, 0, "rate_limit_error", MsgEmpty)
ErrMsg429 == ThrownError(0, 0, "", Msg429)
ErrMsgExhausted == ThrownError(0, 0, "", MsgExhausted)
ErrMsgQuota == ThrownError(0, 0, "", MsgQuota)
ErrMsgRateLimit == ThrownError(0, 0, "", MsgRateLimit)
ErrInvalidRequest == ThrownError(400, 0, "invalid_request_error", MsgEmpty)
ErrEmptyResponse == ThrownError(0, 0, "", MsgEmpty)

\* The errors an attempt fails with
ThrownErrors ==
    {ErrStatus429, ErrCode429, ErrTypeRateLimit, ErrMsg429, ErrMsgExhausted,
     ErrMsgQuota, ErrMsgRateLimit, ErrInvalidRequest, ErrEmptyResponse}

\* String.prototype.includes
includes(s, t) ==
    \E i \in 0..(Len(s) - Len(t)) : \A n \in DOMAIN t : s[i + n] = t[n]

isRateLimit(copy, error) ==
    IF copy = "gemini"
    THEN \/ error.status = 429
         \/ error.code = 429
         \/ includes(error.message, <<"4", "2", "9">>)
         \/ includes(error.message, MsgExhausted)
         \/ includes(error.message, <<"q", "u", "o", "t", "a">>)
    ELSE \/ error.status = 429
         \/ error.type = "rate_limit_error"
         \/ includes(error.message, <<"4", "2", "9">>)
         \/ includes(error.message, MsgRateLimit)

\* one attempt more than `currentTry <= retries` allows
CanRetryOnceMore(tries, max) ==
    tries <= max + 1
\* currentTry <= retries
CanRetry(tries, max) ==
    tries <= max

\* withRetry is called: the first attempt starts
withRetry(copy, max) ==
    /\ retryPhase = "idle"
    /\ retryPhase' = "operation"
    /\ provider' = copy
    /\ retries' = max
    /\ currentTry' = 0
    /\ invocations' = 1
    /\ UNCHANGED <<lastError, retryResult, outsideRetry>>

\* The attempt resolves: its value is returned
OperationSucceeds ==
    /\ retryPhase = "operation"
    /\ retryPhase' = "returned"
    /\ retryResult' = [thrown |-> FALSE, value |-> invocations]
    /\ UNCHANGED <<provider, retries, currentTry, invocations, lastError, outsideRetry>>

\* The attempt rejects: the error is classified, and withRetry waits or rethrows
OperationFails(error) ==
    /\ retryPhase = "operation"
    /\ currentTry' = currentTry + 1
    /\ lastError' = error
    /\ IF isRateLimit(provider, error) /\ CanRetry(currentTry + 1, retries)
       THEN /\ retryPhase' = "wait"
            /\ UNCHANGED retryResult
       ELSE /\ retryPhase' = "thrown"
            /\ retryResult' = error
    /\ UNCHANGED <<provider, retries, invocations, outsideRetry>>

\* The backoff delay is over: the next attempt starts
WaitElapses ==
    /\ retryPhase = "wait"
    /\ retryPhase' = "operation"
    /\ invocations' = invocations + 1
    /\ UNCHANGED <<provider, retries, currentTry, lastError, retryResult, outsideRetry>>

InitRetry ==
    /\ InitCoreIdle
    /\ InitSidebarIdle
    /\ InitOverlapIdle
    /\ InitConsensusIdle
    /\ InitCacheIdle
    /\ InitRetryIdle

\* the continuations of a call: the attempt settles, the timer fires
RetrySettles ==
    \/ OperationSucceeds
    \/ \E error \in ThrownErrors : OperationFails(error)
    \/ WaitElapses

NextRetry ==
    \/ \E copy \in Providers, max \in 0..MaxRetries : withRetry(copy, max)
    \/ RetrySettles

SpecRetry == InitRetry /\ [][NextRetry]_vars

SpecRetryFair == SpecRetry /\ WF_vars(RetrySettles)

\* The errors that are rate-limit errors for each copy
RateLimitErrors(copy) ==
    IF copy = "gemini"
    THEN {ErrStatus429, ErrCode429, ErrMsg429, ErrMsgExhausted, ErrMsgQuota}
    ELSE {ErrStatus429, ErrTypeRateLimit, ErrMsg429, ErrMsgRateLimit}

RetryOver == retryPhase \in {"returned", "thrown"}

\* C29: withRetry terminates with a bounded number of attempts: the operation is
\* invoked at most retries + 1 times; it is invoked again only after the previous
\* attempt failed with a rate-limit error; an error that is not a rate-limit error
\* is rethrown after that attempt with no further attempt; and the value of the
\* first successful attempt is returned with no further invocation.
C29_BoundedAttempts ==
    /\ [](invocations <= retries + 1)
    /\ [][/\ (invocations' # invocations /\ invocations # 0) =>
                /\ invocations' = invocations + 1
                /\ retryPhase = "wait"
                /\ lastError \in RateLimitErrors(provider)
          /\ (retryPhase = "operation" /\ currentTry' # currentTry
                /\ lastError' \notin RateLimitErrors(provider)) =>
                /\ retryPhase' = "thrown"
                /\ retryResult' = lastError'
          /\ (retryPhase = "operation" /\ retryPhase' = "returned") =>
                /\ retryResult' = [thrown |-> FALSE, value |-> invocations]
                /\ currentTry = invocations - 1
          /\ RetryOver => invocations' = invocations /\ RetryOver']_vars
    /\ (retryPhase \in {"operation", "wait"}) ~> RetryOver

\* The default of five retries was used up by rate-limit errors: six attempts, thrown
C29_Witness ==
    /\ retryPhase = "thrown"
    /\ retries = 5
    /\ invocations = 6
    /\ retryResult \in RateLimitErrors(provider)

\* Every cell of the document that is among the affected columns has failed validation
FailedValidation(docId, affected) ==
    /\ docId \in DOMAIN resultsState
    /\ \A colId \in affected \cap DOMAIN resultsState[docId] :
           resultsState[docId][colId].status = "validation_failed"

\* C30: after the validation phase of a run, every existing cell affected by at
\* least one error-severity violation of the formal-logic or the SMT tier has
\* status validation_failed; a warning- or info-severity violation of the same cell
\* does not set it back to needs_review.
C30_ErrorStatusKept ==
    runPhase \in {"done", "rejected"} =>
        \A n \in DOMAIN documents :
            documents[n] \in DOMAIN results =>
                /\ \A r \in DOMAIN DEFAULT_CONTRACT_RULES :
                       (/\ DEFAULT_CONTRACT_RULES[r].severity = "error"
                        /\ RuleViolated(DEFAULT_CONTRACT_RULES[r], results[documents[n]])) =>
                           FailedValidation(documents[n],
                                            AtomColumns(DEFAULT_CONTRACT_RULES[r].formula))
                /\ \A c \in DOMAIN AllConstraints :
                       (/\ AllConstraints[c].severity = "error"
                        /\ ConstraintViolated(AllConstraints[c], results[documents[n]])) =>
                           FailedValidation(documents[n],
                                            Range(AllConstraints[c].affectedColumns))

====
